---- MODULE Spec2Model ----
(***************************************************************************)
(* Leg navigation and turn geometry of dcsplan:                            *)
(*   packages/frontend/src/utils/legCalculations.ts                        *)
(*   packages/frontend/src/utils/flightPlanUtils.ts                        *)
(*                                                                         *)
(* Numbers.  The source computes in IEEE doubles.  The model computes in   *)
(* fixed point over the integers and keeps the three kinds of double that  *)
(* the source can produce apart: a finite value, NaN, and +/-Infinity.     *)
(* Angles are whole degrees (the central angle of the haversine is kept in *)
(* hundredths of a degree), sines and cosines are scaled by Scale, wind    *)
(* components and ground speed are tenths of a knot, plane coordinates are *)
(* multiples of PlaneUnitM metres.                                         *)
(***************************************************************************)
EXTENDS Integers, Sequences, FiniteSets, TLC

----------------------------------------------------------------------------
(* IEEE doubles: finite / NaN / +-Infinity *)

Fin(n) == [t |-> "fin", v |-> n]
NaN == [t |-> "nan", v |-> 0]
PosInf == [t |-> "inf", v |-> 1]
NegInf == [t |-> "inf", v |-> -1]

IsFin(f) == f.t = "fin"
IsNaN(f) == f.t = "nan"
IsInf(f) == f.t = "inf"

Abs(n) == IF n < 0 THEN -n ELSE n
Sign(n) == IF n < 0 THEN -1 ELSE IF n > 0 THEN 1 ELSE 0
Max(a, b) == IF a >= b THEN a ELSE b

\* a + b on doubles
FAdd(a, b) ==
  IF IsNaN(a) \/ IsNaN(b) THEN NaN
  ELSE IF IsInf(a) /\ IsInf(b) THEN (IF a.v = b.v THEN a ELSE NaN)
  ELSE IF IsInf(a) THEN a
  ELSE IF IsInf(b) THEN b
  ELSE Fin(a.v + b.v)

\* -a on doubles
FNeg(a) ==
  IF IsNaN(a) THEN NaN
  ELSE IF IsInf(a) THEN [t |-> "inf", v |-> -a.v]
  ELSE Fin(-a.v)

\* a - b on doubles
FSub(a, b) == FAdd(a, FNeg(b))

\* a * k on doubles, k a finite integer
FMulInt(a, k) ==
  IF IsNaN(a) THEN NaN
  ELSE IF IsInf(a) THEN (IF k = 0 THEN NaN ELSE [t |-> "inf", v |-> a.v * Sign(k)])
  ELSE Fin(a.v * k)

\* the JavaScript remainder a % n (sign of the dividend), n > 0
JsMod(a, n) == IF a >= 0 THEN a % n ELSE -((-a) % n)

\* Math.round(n / d) for integers n, d with d # 0: floor(n/d + 1/2)
RoundDiv(n, d) ==
  IF d > 0 THEN (2 * n + d) \div (2 * d)
  ELSE (-(2 * n) - d) \div (-(2 * d))

\* floor(sqrt(n)) for n >= 0, by bisection on lo..hi
RECURSIVE SqrtIter(_, _, _)
SqrtIter(n, lo, hi) ==
  IF lo >= hi THEN lo
  ELSE LET mid == (lo + hi + 1) \div 2
       IN IF mid * mid <= n THEN SqrtIter(n, mid, hi) ELSE SqrtIter(n, lo, mid - 1)

Isqrt(n) == SqrtIter(n, 0, IF n < 46340 THEN n ELSE 46340)

----------------------------------------------------------------------------
(* Math.sin / Math.cos / Math.atan2 in fixed point *)

Scale == 10000

\* round(sin(d degrees) * Scale) for d = 0..90
SinTable ==
  <<0, 175, 349, 523, 698, 872, 1045, 1219, 1392, 1564, 1736, 1908, 2079,
    2250, 2419, 2588, 2756, 2924, 3090, 3256, 3420, 3584, 3746, 3907, 4067,
    4226, 4384, 4540, 4695, 4848, 5000, 5150, 5299, 5446, 5592, 5736, 5878,
    6018, 6157, 6293, 6428, 6561, 6691, 6820, 6947, 7071, 7193, 7314, 7431,
    7547, 7660, 7771, 7880, 7986, 8090, 8192, 8290, 8387, 8480, 8572, 8660,
    8746, 8829, 8910, 8988, 9063, 9135, 9205, 9272, 9336, 9397, 9455, 9511,
    9563, 9613, 9659, 9703, 9744, 9781, 9816, 9848, 9877, 9903, 9925, 9945,
    9962, 9976, 9986, 9994, 9998, 10000>>

\* the sine of m degrees, 0 <= m < 360, scaled by Scale
SinM(m) ==
  IF m <= 90 THEN SinTable[m + 1]
  ELSE IF m <= 180 THEN SinTable[180 - m + 1]
  ELSE IF m <= 270 THEN -SinTable[m - 180 + 1]
  ELSE -SinTable[360 - m + 1]

\* Math.sin of a whole number of degrees, scaled by Scale
SinD(d) == SinM(d % 360)

\* Math.cos of a whole number of degrees, scaled by Scale
CosD(d) == SinD(d + 90)

\* round((1 - cos(d degrees)) * 10^8) = 2 * sin^2(d/2) * 10^8, d = 0..20
VersTable ==
  <<0, 15230, 60917, 137047, 243595, 380530, 547810, 745385, 973193,
    1231166, 1519225, 1837282, 2185240, 2562994, 2970427, 3407417, 3873830,
    4369524, 4894348, 5448142, 6030738>>

\* Math.sin(x/2)^2 for x a whole number of degrees, scaled by 10^8
SinHalfSq(d) == VersTable[Abs(d) + 1] \div 2

\* an operand of atan2 brought into 100 .. 200000 (m = the larger operand)
\* so that its products with Scale fit
AtanNorm(v, m) ==
  IF m > 10000000 THEN v \div 10000
  ELSE IF m > 100000 THEN v \div 100
  ELSE IF m < 100 THEN v * 1000
  ELSE v

\* ay * cos(d) - ax * sin(d): its sign tells whether atan(ay/ax) is above d
AtanG(ay, ax, d) == ay * CosD(d) - ax * SinD(d)

\* the hundredths between d0 and d0 + 1 degrees, by linear interpolation
AtanFrac(g0, den) ==
  IF den = 0 THEN 0
  ELSE IF RoundDiv(g0, den) > 100 THEN 100
  ELSE RoundDiv(g0, den)

\* atan(ay/ax) in hundredths of a degree, knowing it is in d0 .. d0 + 1
AtanInterp(d0, g0, g1) == d0 * 100 + AtanFrac(g0, (g0 - g1) \div 100)

\* the whole degrees of atan(ay/ax), ax > 0
AtanFloor(ay, ax) ==
  CHOOSE d \in 0..89 : AtanG(ay, ax, d) >= 0 /\ AtanG(ay, ax, d + 1) < 0

\* atan(ay/ax) in hundredths of a degree from its whole degrees d0
AtanFrom(ay, ax, d0) == AtanInterp(d0, AtanG(ay, ax, d0), AtanG(ay, ax, d0 + 1))

\* atan of ay/ax in hundredths of a degree, ay >= 0, ax >= 0, not both 0
AtanQ(ay, ax) == IF ax = 0 THEN 9000 ELSE AtanFrom(ay, ax, AtanFloor(ay, ax))

\* the quadrant of atan2(y, x) applied to t = atan(|y| / |x|)
AtanQuadrant(y, x, t) ==
  IF x >= 0 THEN (IF y >= 0 THEN t ELSE -t)
  ELSE (IF y >= 0 THEN 18000 - t ELSE -(18000 - t))

\* atan(ay / ax) with both operands scaled by the larger one, m
AtanScaled(ay, ax, m) == AtanQ(AtanNorm(ay, m), AtanNorm(ax, m))

\* Math.atan2(y, x) * 180 / Math.PI, in hundredths of a degree, (-18000, 18000]
Atan2Centi(y, x) ==
  IF y = 0 /\ x = 0 THEN 0
  ELSE AtanQuadrant(y, x, AtanScaled(Abs(y), Abs(x), Max(Abs(y), Abs(x))))

----------------------------------------------------------------------------
(* legCalculations.ts *)

CENTRAL_MERIDIAN == 39

\* plane units per degree of latitude, and metres per plane unit
\* (one degree of the sphere of radius 6371000 m is 111195 m)
PlanePerDeg == 4
PlaneUnitM == 27799

\* lines 30-35 (and flightPlanUtils.ts 58-61): Math.atan2(y, x) of the
\* initial bearing, in hundredths of a degree
InitialBearingCenti(lat1, lat2, dLon) ==
  Atan2Centi(SinD(dLon) * CosD(lat2),
             CosD(lat1) * SinD(lat2)
               - ((SinD(lat1) * CosD(lat2)) \div Scale) * CosD(dLon))

\* calculateBearing on finite whole-degree coordinates: degrees in 0..359
BearingDeg(lat1, lon1, lat2, lon2) ==
  JsMod(RoundDiv(InitialBearingCenti(lat1, lat2, lon2 - lon1), 100) + 360, 360)

\* calculateBearing(lat1, lon1, lat2, lon2) on doubles
calculateBearing(lat1, lon1, lat2, lon2) ==
  IF IsFin(lat1) /\ IsFin(lon1) /\ IsFin(lat2) /\ IsFin(lon2)
  THEN Fin(BearingDeg(lat1.v, lon1.v, lat2.v, lon2.v))
  ELSE NaN

\* sin / cos with cos # 0, both scaled by Scale: the tangent scaled by Scale
TanRatio(s, c) == IF c > 0 THEN RoundDiv(s * Scale, c) ELSE -RoundDiv(s * Scale, -c)

\* Math.tan of a whole number of degrees (not an odd multiple of 90),
\* scaled by Scale
TanD(d) == TanRatio(SinD(d), CosD(d))

\* (tasMs * tasMs) / (9.80665 * tan): tasMs10 in tenths of m/s, gTan = g * tan * 1000
RadiusRatio(tasMs10, gTan) ==
  IF gTan = 0
  THEN (IF tasMs10 = 0 THEN NaN ELSE PosInf)
  ELSE Fin(RoundDiv(tasMs10 * tasMs10 * 10, gTan))

\* calculateTurnRadius(tas, bankAngleDeg): metres, as a double
calculateTurnRadius(tas, bankAngleDeg) ==
  RadiusRatio((tas * 514) \div 100, RoundDiv(9807 * TanD(bankAngleDeg), Scale))

\* latLonToTransverseMercator(lat, lon): [x, y] in plane units
latLonToTransverseMercator(lat, lon) ==
  [x |-> RoundDiv((lon - CENTRAL_MERIDIAN) * PlanePerDeg * CosD(lat), Scale),
   y |-> lat * PlanePerDeg]

\* the longitude of plane abscissa x at latitude lat
LonAt(x, lat) == CENTRAL_MERIDIAN + RoundDiv(x * Scale, PlanePerDeg * CosD(lat))

\* the geographic point of plane abscissa x on the parallel of latitude lat
PointAt(x, lat) == [lat |-> lat, lon |-> LonAt(x, lat)]

\* transverseMercatorToLatLon(x, y): [lat, lon] in whole degrees
transverseMercatorToLatLon(x, y) == PointAt(x, RoundDiv(y, PlanePerDeg))

\* Math.asin(num / den) * 180 / Math.PI in whole degrees, as a double:
\* NaN when the quotient is outside [-1, 1] or is 0/0
AsinRatioDeg(num, den) ==
  IF den = 0 \/ Abs(num) > Abs(den) THEN NaN
  ELSE Fin(RoundDiv(Atan2Centi(num * Sign(den), Isqrt(den * den - num * num)), 100))

\* the result of calculateStraighteningPoint: thrown = TRUE when it throws
\* plane holds the locals cx, cy, sxResult, syResult, dx, dy and the radius
\* in plane units (not part of the returned tuple)
NoPlane == [cx |-> 0, cy |-> 0, sx |-> 0, sy |-> 0, dx |-> 0, dy |-> 0, r |-> 0,
            x1 |-> 0, y1 |-> 0, x2 |-> 0, y2 |-> 0, dot1 |-> 0, dot2 |-> 0]

Thrown == [thrown |-> TRUE, cLat |-> NaN, cLon |-> NaN, sLat |-> NaN,
           sLon |-> NaN, turnDirection |-> 0, branch |-> "none", plane |-> NoPlane]

\* lines 99, 205-206: the returned tuple from the centre c and the chosen
\* point s; branch tells which branch of line 111 chose it
Returned(c, s, turnDirection, branch, plane) ==
  [thrown |-> FALSE, cLat |-> Fin(c.lat), cLon |-> Fin(c.lon),
   sLat |-> Fin(s.lat), sLon |-> Fin(s.lon), turnDirection |-> turnDirection,
   branch |-> branch, plane |-> plane]

\* the turn direction with the 180 degree case on the other side
TurnDirectionOfGe(aproxOutboundBearing, inboundBearing) ==
  IF IsFin(inboundBearing)
     /\ JsMod(aproxOutboundBearing - inboundBearing.v + 360, 360) >= 180
  THEN 1 ELSE -1

\* turnDirection of calculateStraighteningPoint (line 92-93):
\* 1 = counter-clockwise (centre on the left), -1 = clockwise
TurnDirectionOf(aproxOutboundBearing, inboundBearing) ==
  IF IsFin(inboundBearing)
     /\ JsMod(aproxOutboundBearing - inboundBearing.v + 360, 360) > 180
  THEN 1 ELSE -1

\* the dot product taken with the radius instead of the tangent
TangentDotRadial(px, py, cx, cy, dx, dy, turnDirection) ==
  (px - cx) * (dx - px) + (py - cy) * (dy - py)

\* lines 157-168: the dot product of the arc's tangent at (px, py) with the
\* direction from (px, py) to the destination (dx, dy)
TangentDot(px, py, cx, cy, dx, dy, turnDirection) ==
  (IF turnDirection = 1 THEN -(py - cy) ELSE py - cy) * (dx - px)
  + (IF turnDirection = 1 THEN px - cx ELSE -(px - cx)) * (dy - py)

\* lines 180-202: the intersection chosen from the two dot products
SelectIntersection(cx, cy, dx, dy, r, x1, y1, x2, y2, dot1, dot2, turnDirection) ==
  IF dot1 > 0 \/ (dot2 <= 0 /\ dot1 > dot2)
  THEN Returned(transverseMercatorToLatLon(cx, cy),
                transverseMercatorToLatLon(x1, y1), turnDirection, "quadratic",
                [cx |-> cx, cy |-> cy, sx |-> x1, sy |-> y1,
                 dx |-> dx, dy |-> dy, r |-> r, x1 |-> x1, y1 |-> y1,
                 x2 |-> x2, y2 |-> y2, dot1 |-> dot1, dot2 |-> dot2])
  ELSE Returned(transverseMercatorToLatLon(cx, cy),
                transverseMercatorToLatLon(x2, y2), turnDirection, "quadratic",
                [cx |-> cx, cy |-> cy, sx |-> x2, sy |-> y2,
                 dx |-> dx, dy |-> dy, r |-> r, x1 |-> x1, y1 |-> y1,
                 x2 |-> x2, y2 |-> y2, dot1 |-> dot1, dot2 |-> dot2])

\* lines 155-177: both intersections with their dot products
Intersections(cx, cy, dx, dy, r, turnDirection, x1, y1, x2, y2) ==
  SelectIntersection(cx, cy, dx, dy, r, x1, y1, x2, y2,
                     TangentDot(x1, y1, cx, cy, dx, dy, turnDirection),
                     TangentDot(x2, y2, cx, cy, dx, dy, turnDirection),
                     turnDirection)

\* lines 145-148: the two roots x1, x2 and their y on the line Ax + By = C
Roots(cx, cy, dx, dy, r, turnDirection, A, B, C, x1, x2) ==
  Intersections(cx, cy, dx, dy, r, turnDirection,
                x1, RoundDiv(C - A * x1, B), x2, RoundDiv(C - A * x2, B))

\* lines 142-147: the roots from sqrtDisc
QuadraticRoots(cx, cy, dx, dy, r, turnDirection, A, B, C, a, b, sqrtDisc) ==
  Roots(cx, cy, dx, dy, r, turnDirection, A, B, C,
        RoundDiv(-b + sqrtDisc, 2 * a), RoundDiv(-b - sqrtDisc, 2 * a))

\* the discriminant test failing on a double root as well
DiscriminantStrict(cx, cy, dx, dy, r, turnDirection, A, B, C, a, b, discriminant) ==
  IF discriminant <= 0 THEN Thrown
  ELSE QuadraticRoots(cx, cy, dx, dy, r, turnDirection, A, B, C, a, b,
                      Isqrt(discriminant))

\* lines 134-142: the discriminant test of the quadratic
Discriminant(cx, cy, dx, dy, r, turnDirection, A, B, C, a, b, discriminant) ==
  IF discriminant < 0 THEN Thrown
  ELSE QuadraticRoots(cx, cy, dx, dy, r, turnDirection, A, B, C, a, b,
                      Isqrt(discriminant))

\* lines 128-134: the quadratic a x^2 + b x + c
Quadratic(cx, cy, dx, dy, turnDirection, A, B, C, r, a, b, c) ==
  Discriminant(cx, cy, dx, dy, r, turnDirection, A, B, C, a, b, b * b - 4 * a * c)

\* lines 117-125: the line x = xLine met with the circle
HorizontalRoot(cx, cy, dx, dy, r, turnDirection, xLine, discriminant) ==
  IF discriminant < 0 THEN Thrown
  ELSE Returned(transverseMercatorToLatLon(cx, cy),
                transverseMercatorToLatLon(xLine, cy + turnDirection * Isqrt(discriminant)),
                turnDirection, "line",
                [cx |-> cx, cy |-> cy, sx |-> xLine,
                 sy |-> cy + turnDirection * Isqrt(discriminant),
                 dx |-> dx, dy |-> dy, r |-> r, x1 |-> xLine,
                 y1 |-> cy + turnDirection * Isqrt(discriminant), x2 |-> xLine,
                 y2 |-> cy + turnDirection * Isqrt(discriminant),
                 dot1 |-> 0, dot2 |-> 0])

\* lines 116-117: xLine and its discriminant
Horizontal(cx, cy, dx, dy, turnDirection, r, xLine) ==
  HorizontalRoot(cx, cy, dx, dy, r, turnDirection, xLine,
                 r * r - (xLine - cx) * (xLine - cx))

\* lines 110-203: the radical axis Ax + By = C met with the turn circle
RadicalAxis(cx, cy, dx, dy, turnDirection, r, A, B, C) ==
  IF B = 0
  THEN (IF A = 0 THEN Thrown
        ELSE Horizontal(cx, cy, dx, dy, turnDirection, r, RoundDiv(C, A)))
  ELSE Quadratic(cx, cy, dx, dy, turnDirection, A, B, C, r,
                 A * A + B * B,
                 -2 * B * B * cx + 2 * A * (B * cy - C),
                 B * B * cx * cx + (C - B * cy) * (C - B * cy) - r * r * B * B)

\* lines 101-105: A, B, C for the centre (cx, cy) and the destination (dx, dy)
TurnCircle(cx, cy, dx, dy, turnDirection, r) ==
  RadicalAxis(cx, cy, dx, dy, turnDirection, r,
              cx - dx, cy - dy,
              cx * cx + cy * cy - r * r - (dx * cx + dy * cy))

\* the turn centre offset to the other side of the inbound track
TurnCentreOpposite(inbound, s, d, turnDirection, r) ==
  TurnCircle(s.x + turnDirection * RoundDiv(CosD(inbound) * r, Scale),
             s.y - turnDirection * RoundDiv(SinD(inbound) * r, Scale),
             d.x, d.y, turnDirection, r)

\* lines 95-98: the turn centre, r = turnRadiusM in plane units
TurnCentre(inbound, s, d, turnDirection, r) ==
  TurnCircle(s.x - turnDirection * RoundDiv(CosD(inbound) * r, Scale),
             s.y + turnDirection * RoundDiv(SinD(inbound) * r, Scale),
             d.x, d.y, turnDirection, r)

\* lines 95-206 once the turn direction is known.  When the inbound bearing
\* or the radius is not finite, cx and cy are NaN or infinite, every later
\* value is NaN, no comparison is true and the function throws nothing of
\* its own: the outcome is the projection library's.
Straightening(inbound, s, d, turnDirection, turnRadiusM, rej) ==
  IF ~IsFin(inbound) \/ ~IsFin(turnRadiusM)
  THEN IF rej THEN Thrown
       ELSE [thrown |-> FALSE, cLat |-> NaN, cLon |-> NaN, sLat |-> NaN,
             sLon |-> NaN, turnDirection |-> turnDirection, branch |-> "nan",
             plane |-> NoPlane]
  ELSE TurnCentre(inbound.v, s, d, turnDirection,
                  RoundDiv(turnRadiusM.v, PlaneUnitM))

\* calculateStraighteningPoint(inboundBearing, point1Lat, point1Lon,
\*   point2Lat, point2Lon, turnRadiusM).  rej = TRUE when the projection
\*   library throws on a coordinate that is not finite, FALSE when it hands
\*   NaN back.
calculateStraighteningPoint(inbound, point1Lat, point1Lon, point2Lat, point2Lon, turnRadiusM, rej) ==
  Straightening(inbound,
                latLonToTransverseMercator(point1Lat, point1Lon),
                latLonToTransverseMercator(point2Lat, point2Lon),
                TurnDirectionOf(BearingDeg(point1Lat, point1Lon, point2Lat, point2Lon),
                                inbound),
                turnRadiusM, rej)

\* lines 282-283 (and flightPlanUtils.ts 75): the wind angle in degrees
WindAngle(windDir, course) == JsMod(JsMod(windDir + 180, 360) - course + 360, 360)

\* windSpeed * Math.cos(windAngleRad), in tenths of a knot
TailComponent(windSpeed, windAngle) == RoundDiv(windSpeed * CosD(windAngle), 1000)

\* windSpeed * Math.sin(windAngleRad), in tenths of a knot
CrossComponent(windSpeed, windAngle) == RoundDiv(windSpeed * SinD(windAngle), 1000)

\* lines 290-293: the heading brought into [0, 360)
NormalizeHeading(heading) ==
  JsMod(IF heading < 0 THEN heading + 360 ELSE heading, 360)

\* lines 288-293: the heading from the course and the correction angle
HeadingFrom(course, correction) ==
  IF ~IsFin(correction) THEN NaN
  ELSE Fin(NormalizeHeading(course - correction.v))

\* lines 284-289 for a wind angle
HeadingAt(course, windSpeed, windAngle, tas) ==
  HeadingFrom(course,
              AsinRatioDeg(CrossComponent(windSpeed, windAngle),
                           tas * 10 + TailComponent(windSpeed, windAngle)))

\* calculateHeading(course, windSpeed, windDir, tas)
calculateHeading(course, windSpeed, windDir, tas) ==
  IF ~IsFin(course) THEN NaN
  ELSE HeadingAt(course.v, windSpeed, WindAngle(windDir, course.v), tas)

----------------------------------------------------------------------------
(* flightPlanUtils.ts *)

\* Units of calculateLegData.  course, heading: degrees; distance:
\* hundredths of a nautical mile; ete, eta: seconds; legFuel, efr: 1/36 lb
\* (fuelFlow is a multiple of 100 lb per hour, so ete * (fuelFlow / 3600)
\* is exact in that unit).

\* SeedTime without the chaining of lines 93-95
SeedTimeNoChain(flightPlan, indexWptFrom, prevData) == Fin(flightPlan.initTimeSec)

\* lines 91-95: the time before the leg
SeedTime(flightPlan, indexWptFrom, prevData) ==
  IF indexWptFrom > 0 THEN prevData.eta ELSE Fin(flightPlan.initTimeSec)

\* SeedEfr without the chaining of lines 93-96
SeedEfrNoChain(flightPlan, indexWptFrom, prevData) == Fin(flightPlan.initFob * 36)

\* lines 92-96: the fuel before the leg
SeedEfr(flightPlan, indexWptFrom, prevData) ==
  IF indexWptFrom > 0 THEN prevData.efr ELSE Fin(flightPlan.initFob * 36)

\* lines 68-70: the haversine a, scaled by 10^8
HaversineA(lat1, lat2, dLat, dLon) ==
  SinHalfSq(dLat)
  + (((CosD(lat1) * CosD(lat2)) \div Scale) * (SinHalfSq(dLon) \div 10)) \div 1000

\* line 71: c = 2 * atan2(sqrt(a), sqrt(1 - a)), in hundredths of a degree
HaversineC(a) == 2 * Atan2Centi(Isqrt(a * 100), 10 * Isqrt(100000000 - a))

\* lines 64-72: lengthMeters = R * c, R = 6371000 (111195 m per degree)
LengthMeters(lat1, lon1, lat2, lon2) ==
  (HaversineC(HaversineA(lat1, lat2, lat2 - lat1, lon2 - lon1)) * 111195) \div 100

\* line 81: ete = Math.round(lengthMeters / 1852 / (groundSpeed / 3600)),
\* distance in hundredths of a nautical mile, groundSpeed in tenths of a knot
EteOf(distance, groundSpeed) ==
  IF groundSpeed = 0
  THEN (IF distance = 0 THEN NaN ELSE PosInf)
  ELSE Fin(RoundDiv(distance * 360, groundSpeed))

\* lines 85-88: the heading of calculateLegData
LegHeading(course, correction) ==
  IF ~IsFin(correction) THEN NaN
  ELSE Fin(IF course - correction.v < 0 THEN course - correction.v + 360
           ELSE course - correction.v)

\* lines 83, 98-101: legFuel, eta, efr and the returned LegData
LegDataOf(course, distance, ete, legFuel, heading, initTimeSec, initEfr) ==
  [course |-> course, distance |-> distance, ete |-> ete,
   legFuel |-> legFuel, heading |-> heading,
   eta |-> FAdd(initTimeSec, ete), efr |-> FSub(initEfr, legFuel)]

\* lines 81-99 once the ete is known
LegFuelOf(course, distance, ete, fuelFlow, heading, initTimeSec, initEfr) ==
  LegDataOf(course, distance, ete, FMulInt(ete, fuelFlow \div 100), heading,
            initTimeSec, initEfr)

\* lines 80-88 once the wind components are known
LegSpeed(originWpt, course, distance, tailComponent, crossComponent, initTimeSec, initEfr) ==
  LegFuelOf(course, distance,
            EteOf(distance, originWpt.tas * 10 + tailComponent),
            originWpt.fuelFlow,
            LegHeading(course,
                       AsinRatioDeg(crossComponent, originWpt.tas * 10 + tailComponent)),
            initTimeSec, initEfr)

\* lines 75-77: the wind triangle of the origin waypoint
LegWind(originWpt, course, distance, windAngle, initTimeSec, initEfr) ==
  LegSpeed(originWpt, course, distance,
           TailComponent(originWpt.windSpeed, windAngle),
           CrossComponent(originWpt.windSpeed, windAngle),
           initTimeSec, initEfr)

\* lines 62-75 once the course and the length are known
LegCourse(originWpt, course, lengthMeters, initTimeSec, initEfr) ==
  LegWind(originWpt, course, RoundDiv(lengthMeters * 100, 1852),
          WindAngle(originWpt.windDir, course), initTimeSec, initEfr)

\* lines 48-72: course and length of the leg
LegGeometry(flightPlan, originWpt, destinationWpt, initTimeSec, initEfr) ==
  LegCourse(originWpt,
            JsMod(RoundDiv(InitialBearingCenti(originWpt.lat, destinationWpt.lat,
                                               destinationWpt.lon - originWpt.lon), 100)
                  + flightPlan.declination + 360, 360),
            LengthMeters(originWpt.lat, originWpt.lon,
                         destinationWpt.lat, destinationWpt.lon),
            initTimeSec, initEfr)

\* lines 46-101 given the LegData of the leg before
LegDataAfter(flightPlan, indexWptFrom, prevData) ==
  LegGeometry(flightPlan,
              flightPlan.points[indexWptFrom + 1],
              flightPlan.points[indexWptFrom + 2],
              SeedTime(flightPlan, indexWptFrom, prevData),
              SeedEfr(flightPlan, indexWptFrom, prevData))

\* the value of prevData when there is no leg before
NoLegData == [course |-> 0, distance |-> 0, ete |-> NaN, legFuel |-> NaN,
              heading |-> NaN, eta |-> NaN, efr |-> NaN]

\* calculateLegData(flightPlan, indexWptFrom), indexWptFrom counted from 0
RECURSIVE calculateLegData(_, _)
calculateLegData(flightPlan, indexWptFrom) ==
  LegDataAfter(flightPlan, indexWptFrom,
               IF indexWptFrom > 0
               THEN calculateLegData(flightPlan, indexWptFrom - 1)
               ELSE NoLegData)

----------------------------------------------------------------------------
(* flightPlanUtils.ts: addTurnPoint and moveTurnPoint *)

\* a property that is not set on an object (an optional name left out)
NotSet == "<not set>"

\* lines 3-7
defaultTas == 400

defaultAlt == 3000

defaultFuelFlow == 6000

defaultWindSpeed == 0

defaultWindDir == 0

\* lines 15-19: the flight parameters of the new leg, those of the waypoint
\* before the last one (points[length - 2]) when the plan has two or more
FlightParameters(points) ==
  IF Len(points) > 1
  THEN [tas |-> points[Len(points) - 1].tas, alt |-> points[Len(points) - 1].alt,
        fuelFlow |-> points[Len(points) - 1].fuelFlow,
        windSpeed |-> points[Len(points) - 1].windSpeed,
        windDir |-> points[Len(points) - 1].windDir]
  ELSE [tas |-> defaultTas, alt |-> defaultAlt, fuelFlow |-> defaultFuelFlow,
        windSpeed |-> defaultWindSpeed, windDir |-> defaultWindDir]

\* line 21: the object literal of the new waypoint, without a name
NewTurnPoint(lat, lon, p) ==
  [lat |-> lat, lon |-> lon, tas |-> p.tas, alt |-> p.alt, fuelFlow |-> p.fuelFlow,
   windSpeed |-> p.windSpeed, windDir |-> p.windDir, name |-> NotSet]

\* line 23: { ...point, tas, alt, fuelFlow, windSpeed, windDir }
WithParameters(point, p) ==
  [point EXCEPT !.tas = p.tas, !.alt = p.alt, !.fuelFlow = p.fuelFlow,
                !.windSpeed = p.windSpeed, !.windDir = p.windDir]

\* lines 22-24: the waypoint before the new one takes the same parameters
BeforeLastRewritten(newPoints, p) ==
  IF Len(newPoints) > 1
  THEN [newPoints EXCEPT ![Len(newPoints) - 1] = WithParameters(@, p)]
  ELSE newPoints

\* lines 21-24: newPoints
AddedPoints(points, lat, lon, p) ==
  BeforeLastRewritten(Append(points, NewTurnPoint(lat, lon, p)), p)

\* addTurnPoint(flightPlan, lat, lon) (lines 14-27)
addTurnPoint(plan, lat, lon) ==
  [plan EXCEPT !.points = AddedPoints(plan.points, lat, lon,
                                      FlightParameters(plan.points))]

\* lines 30-31: the object literal of the moved waypoint, without a name
MovedPoint(point, lat, lon) ==
  [lat |-> lat, lon |-> lon, tas |-> point.tas, alt |-> point.alt,
   fuelFlow |-> point.fuelFlow, windSpeed |-> point.windSpeed,
   windDir |-> point.windDir, name |-> NotSet]

\* moveTurnPoint(flightPlan, index, lat, lon) (lines 28-34), index from 0
\* and within the plan
moveTurnPoint(plan, index, lat, lon) ==
  [plan EXCEPT !.points[index + 1] = MovedPoint(@, lat, lon)]

----------------------------------------------------------------------------
(* usePersistedFlightPlan.ts: values *)

\* a property that is absent from an object (undefined)
Undefined == "<undefined>"

\* a slot that does not hold a number (undefined or null)
NoNumber == [t |-> "none", v |-> 0]

\* typeof x === 'number' (NaN and the infinities are numbers)
IsNumber(x) == x.t \in {"fin", "nan", "inf"}

\* the truth value of a string-valued property
Truthy(str) == str # Undefined /\ str # ""

\* types/flightPlan.ts line 83
FLIGHT_PLAN_VERSION == "1.1"

\* a value that is not an array
NoArray == [isArray |-> FALSE, items |-> << >>]

\* an array of turn points
ArrayOf(items) == [isArray |-> TRUE, items |-> items]

\* a parsed JSON value seen as `any`: whether it is an object, its version
\* property, whether its flightPlan property is truthy, and the properties
\* of a FlightPlan
Obj(version, hasFlightPlan, theatre, name, points, declination, bankAngle) ==
  [isObject |-> TRUE, version |-> version, hasFlightPlan |-> hasFlightPlan,
   theatre |-> theatre, name |-> name, points |-> points,
   declination |-> declination, bankAngle |-> bankAngle,
   initTimeSec |-> Fin(43200), initFob |-> Fin(12000)]

\* a parsed value that is not an object (null, a number, a string)
NoObj ==
  [isObject |-> FALSE, version |-> Undefined, hasFlightPlan |-> FALSE,
   theatre |-> Undefined, name |-> Undefined, points |-> NoArray,
   declination |-> NoNumber, bankAngle |-> NoNumber,
   initTimeSec |-> NoNumber, initFob |-> NoNumber]

\* an object with none of the properties of a FlightPlan
EmptyObj(version, hasFlightPlan) ==
  [NoObj EXCEPT !.isObject = TRUE, !.version = version,
                !.hasFlightPlan = hasFlightPlan]

\* a turn point with the given lat slot
PointOf(lat) ==
  [lat |-> lat, lon |-> Fin(39), tas |-> Fin(400), alt |-> Fin(3000),
   fuelFlow |-> Fin(6000), windSpeed |-> Fin(0), windDir |-> Fin(0)]

\* lines 22-31: the test of one point
IsValidPoint(point) ==
  /\ IsNumber(point.lat)
  /\ IsNumber(point.lon)
  /\ IsNumber(point.tas)
  /\ IsNumber(point.alt)
  /\ IsNumber(point.fuelFlow)
  /\ IsNumber(point.windSpeed)
  /\ IsNumber(point.windDir)

\* lines 11-33: isValidFlightPlan(data)
isValidFlightPlan(data) ==
  /\ data.isObject
  /\ data.theatre # Undefined
  /\ data.points.isArray
  /\ IsNumber(data.declination)
  /\ IsNumber(data.bankAngle)
  /\ IsNumber(data.initTimeSec)
  /\ IsNumber(data.initFob)
  /\ data.name # Undefined
  /\ \A k \in 1..Len(data.points.items) : IsValidPoint(data.points.items[k])

\* flightPlanUtils.ts lines 11-13: newFlightPlan(), the default plan of App
DefaultPlan ==
  [EmptyObj(Undefined, FALSE) EXCEPT !.points = ArrayOf(<< >>),
     !.declination = Fin(0), !.initTimeSec = Fin(43200), !.initFob = Fin(12000)]

\* the value of localStorage.getItem(STORAGE_KEY): null, the empty string,
\* a string that is not JSON, or the JSON text of a value `top` whose
\* flightPlan property (when truthy) is `inner`
NoItem == [kind |-> "none", top |-> NoObj, inner |-> NoObj]
EmptyItem == [kind |-> "empty", top |-> NoObj, inner |-> NoObj]
GarbageItem == [kind |-> "garbage", top |-> NoObj, inner |-> NoObj]
JsonItem(top, inner) == [kind |-> "json", top |-> top, inner |-> inner]

\* JSON.stringify of a number: NaN and the infinities become null
JsonNumber(x) == IF x.t = "fin" THEN x ELSE NoNumber

\* JSON.stringify of a turn point
JsonPoint(point) ==
  [lat |-> JsonNumber(point.lat), lon |-> JsonNumber(point.lon),
   tas |-> JsonNumber(point.tas), alt |-> JsonNumber(point.alt),
   fuelFlow |-> JsonNumber(point.fuelFlow),
   windSpeed |-> JsonNumber(point.windSpeed),
   windDir |-> JsonNumber(point.windDir)]

\* JSON.stringify then JSON.parse of a plan object
JsonPlan(plan) ==
  [plan EXCEPT !.points = [@ EXCEPT !.items = [k \in DOMAIN @ |-> JsonPoint(@[k])]],
               !.declination = JsonNumber(@), !.bankAngle = JsonNumber(@),
               !.initTimeSec = JsonNumber(@), !.initFob = JsonNumber(@)]

\* lines 97-101: the item written by saveFlightPlan
SavedItem(plan) ==
  JsonItem(EmptyObj(FLIGHT_PLAN_VERSION, TRUE), JsonPlan(plan))

\* localStorage.removeItem left undone
RemoveItemNoop(item) == item

\* lines 78, 84: localStorage.removeItem(STORAGE_KEY)
RemoveItem(item) == NoItem

\* line 51: the parsed value is a versioned wrapper
IsWrapper(parsed) ==
  parsed.top.isObject /\ Truthy(parsed.top.version) /\ parsed.top.hasFlightPlan

\* lines 51-58: flightPlanData
FlightPlanData(parsed) == IF IsWrapper(parsed) THEN parsed.inner ELSE parsed.top

\* lines 51-58: version
VersionOf(parsed) == IF IsWrapper(parsed) THEN parsed.top.version ELSE Undefined

\* no migration at all
MigrateNever(flightPlanData, version) == flightPlanData

\* lines 61-70: the migration
Migrate(flightPlanData, version) ==
  IF version # FLIGHT_PLAN_VERSION /\ flightPlanData.isObject
     /\ ~Truthy(flightPlanData.theatre)
  THEN [flightPlanData EXCEPT !.theatre = "syria_old"]
  ELSE flightPlanData

\* what loadFlightPlan returns (null when ~loaded) and leaves in storage
Loaded(plan, item) == [loaded |-> TRUE, plan |-> plan, item |-> item]
NotLoaded(item) == [loaded |-> FALSE, plan |-> NoObj, item |-> item]

\* lines 72-79: validation of the migrated data
Validate(flightPlanData, item) ==
  IF isValidFlightPlan(flightPlanData)
  THEN Loaded(flightPlanData, item)
  ELSE NotLoaded(RemoveItem(item))

\* lines 38-90: loadFlightPlan() on the stored item
loadFlightPlan(item) ==
  CASE item.kind \in {"none", "empty"} -> NotLoaded(item)
    [] item.kind = "garbage" -> NotLoaded(RemoveItem(item))
    [] OTHER -> Validate(Migrate(FlightPlanData(item), VersionOf(item)), item)

----------------------------------------------------------------------------
(* FlightPlanZone.tsx: TimeEditableField, strings as sequences of characters *)

Digits == <<"0", "1", "2", "3", "4", "5", "6", "7", "8", "9">>

IsDigit(c) == \E d \in 1..10 : Digits[d] = c

DigitVal(c) == (CHOOSE d \in 1..10 : Digits[d] = c) - 1

\* n.toString().padStart(2, '0') for 0 <= n < 100
Pad2(n) == <<Digits[(n \div 10) + 1], Digits[(n % 10) + 1]>>

\* lines 518-523: secondsToTimeString(timeSec) for whole seconds under 100 h
secondsToTimeString(timeSec) ==
  Pad2(timeSec \div 3600) \o <<":">> \o Pad2((timeSec % 3600) \div 60)
    \o <<":">> \o Pad2(timeSec % 60)

\* parseInt of a string of digits
RECURSIVE ParseInt(_)
ParseInt(str) ==
  IF str = << >> THEN 0
  ELSE ParseInt(SubSeq(str, 1, Len(str) - 1)) * 10 + DigitVal(str[Len(str)])

\* editValue.replace(/[^\d]/g, '')
DigitsOnly(str) == SelectSeq(str, IsDigit)

\* the split of c followed by a string whose split is rest
SplitStep(c, rest) ==
  IF c = ":" THEN << << >> >> \o rest
  ELSE << <<c>> \o rest[1] >> \o Tail(rest)

\* str.split(':')
RECURSIVE SplitColon(_)
SplitColon(str) ==
  IF str = << >> THEN << << >> >>
  ELSE SplitStep(Head(str), SplitColon(Tail(str)))

\* \d{1,2}
OneOrTwoDigits(str) == Len(str) \in {1, 2} /\ \A k \in 1..Len(str) : IsDigit(str[k])

\* Math.min(hi, Math.max(0, x))
Clamp(x, hi) == IF x < 0 THEN 0 ELSE IF x > hi THEN hi ELSE x

\* lines 573-578: the clamped arguments of onChange
Clamped(newHour, newMinute, newSeconds) ==
  [call |-> TRUE,
   time |-> <<Clamp(newHour, 23), Clamp(newMinute, 59), Clamp(newSeconds, 59)>>]

\* lines 564-569: no digit at all, nothing is saved
Restored == [call |-> FALSE, time |-> <<0, 0, 0>>]

\* lines 558-563: the digits of the input read as the hour
HourOnly(digitsOnly) ==
  IF Len(digitsOnly) > 0 THEN Clamped(ParseInt(digitsOnly), 0, 0) ELSE Restored

\* lines 543-578 on the parts of the input between colons
SaveParts(editValue, parts) ==
  IF Len(parts) = 3 /\ \A k \in 1..3 : OneOrTwoDigits(parts[k])
  THEN Clamped(ParseInt(parts[1]), ParseInt(parts[2]), ParseInt(parts[3]))
  ELSE IF Len(parts) = 2 /\ \A k \in 1..2 : OneOrTwoDigits(parts[k])
  THEN Clamped(ParseInt(parts[1]), ParseInt(parts[2]), 0)
  ELSE HourOnly(DigitsOnly(editValue))

\* lines 536-580: what handleSave passes to onChange, if it calls it
handleSave(editValue) == SaveParts(editValue, SplitColon(editValue))

\* lines 615-622: the digits regrouped in pairs
Formatted(digitsOnly) ==
  IF Len(digitsOnly) <= 2 THEN digitsOnly
  ELSE IF Len(digitsOnly) <= 4
  THEN SubSeq(digitsOnly, 1, 2) \o <<":">> \o SubSeq(digitsOnly, 3, Len(digitsOnly))
  ELSE SubSeq(digitsOnly, 1, 2) \o <<":">> \o SubSeq(digitsOnly, 3, 4) \o <<":">>
         \o SubSeq(digitsOnly, 5, IF Len(digitsOnly) < 6 THEN Len(digitsOnly) ELSE 6)

\* lines 610-630: the new editValue when characters were added
Typed(editValue, inputValue, digitsOnly, prevLength) ==
  IF Len(digitsOnly) > 0 /\ Len(inputValue) >= prevLength
  THEN (IF Len(Formatted(digitsOnly)) <= 8 THEN Formatted(digitsOnly) ELSE editValue)
  ELSE inputValue

\* lines 597-632: the editValue after handleInputChange(inputValue)
handleInputChange(editValue, prevLength, inputValue) ==
  IF \E k \in 1..Len(inputValue) : ~IsDigit(inputValue[k]) /\ inputValue[k] # ":"
  THEN editValue
  ELSE IF Len(inputValue) < prevLength THEN inputValue
  ELSE Typed(editValue, inputValue, DigitsOnly(inputValue), prevLength)

----------------------------------------------------------------------------
(* The program state *)

VARIABLES
  flightPlan,       \* the FlightPlan handed to the engine
  rejects,          \* the projection library throws on non-finite input
  pc,               \* calculateAllLegData: "idle", "loop", "done", "thrown"
  i,                \* its loop index (from 0)
  inboundBearing,   \* its local inboundBearing
  results,          \* its local results
  legRows,          \* calculateLegData of legs 0.. as the sidebar renders them
  resolver,         \* one direct call of calculateStraighteningPoint
  arc,              \* one call of generateArcPoints: arguments, locals, points
  storage,          \* localStorage's item under STORAGE_KEY
  hook,             \* usePersistedFlightPlan: state, refs, pending effect
  field,            \* one TimeEditableField: state, prop, onChange calls
  edit,             \* one call of addTurnPoint or moveTurnPoint
  map               \* App and MapComponent while drawing: states, pending updates

vars == <<flightPlan, rejects, pc, i, inboundBearing, results, legRows, resolver,
          arc, storage, hook, field, edit, map>>

\* the variables of the user interface, which the engine does not touch
uiVars == <<storage, hook, field, edit, map>>

\* no timer set by the hook
NoTimer == [pending |-> FALSE, plan |-> NoObj]

\* the hook before its component is mounted
NoHook == [mounted |-> FALSE, saved |-> NoItem, flightPlan |-> NoObj,
           isInitialMount |-> TRUE, effectPending |-> FALSE, timer |-> NoTimer,
           edits |-> 0, rejected |-> FALSE]

\* no TimeEditableField rendered
NoField == [pc |-> "none", editValue |-> << >>, prevLength |-> 8, timeSec |-> 0,
            calls |-> 0, last |-> <<0, 0, 0>>, input |-> << >>,
            key |-> "none", typed |-> << >>]

\* a flight plan object that stands for none
NoPlanEdited == [theatre |-> "", name |-> "", points |-> << >>, declination |-> 0,
                 bankAngle |-> 0, initTimeSec |-> 0, initFob |-> 0]

\* no call of addTurnPoint or moveTurnPoint
NoEdit == [op |-> "none", flightPlan |-> NoPlanEdited, index |-> 0, lat |-> 0,
           lon |-> 0, returned |-> NoPlanEdited]

\* currentPoint = null
NoPoint == [set |-> FALSE, lat |-> 0, lon |-> 0]

\* no setDrawingState call waiting for a render
NoUpdate == [kind |-> "none", point |-> NoPoint]

\* no map rendered
NoMap == [shown |-> FALSE, flightPlan |-> NoPlanEdited, updates |-> << >>,
          isDrawing |-> "NO_DRAWING", currentPoint |-> NoPoint,
          drawingUpdate |-> NoUpdate, handlerDrawing |-> FALSE,
          effectPending |-> FALSE, initial |-> << >>, clicked |-> << >>]

\* no editing and no map
MapIdle == edit = NoEdit /\ map = NoMap

\* nothing stored, nothing mounted
UiIdle == storage = NoItem /\ hook = NoHook /\ field = NoField /\ MapIdle

\* bounds of the model
MaxPoints == 4

\* turnDirection values of legCalculations.ts lines 160-161
CCW == 1
CW == -1

Wpt(lat, lon, tas, fuelFlow, windSpeed, windDir) ==
  [lat |-> lat, lon |-> lon, tas |-> tas, alt |-> 3000, fuelFlow |-> fuelFlow,
   windSpeed |-> windSpeed, windDir |-> windDir]

\* the turn points the plans are made of
Waypoints ==
  { Wpt(0, 39, 400, 7200, 0, 0),        \* calm
    Wpt(1, 39, 600, 3600, 50, 270),     \* fast, moderate wind from the west
    Wpt(1, 40, 400, 6000, 500, 270),    \* wind faster than the aircraft
    Wpt(0, 40, 100, 6000, 100, 0) }     \* wind from the north equal to the TAS

BankAngles == {0, 5, 30, 175}
Declinations == {0, 5}

FlightPlans ==
  { [points |-> pts, declination |-> dec, bankAngle |-> bank,
     initTimeSec |-> 43200, initFob |-> 12000] :
      pts \in UNION { [1..n -> Waypoints] : n \in 0..MaxPoints },
      dec \in Declinations, bank \in BankAngles }

\* no direct call of the resolver has been made
NoCall == [called |-> FALSE, inboundBearing |-> 0, point1 |-> <<0, 0>>,
           point2 |-> <<0, 0>>, turnRadiusM |-> 0, result |-> Thrown]

\* no call of generateArcPoints has been made
NoArc == [pc |-> "none", center |-> <<0, 0>>, radiusM |-> 0, start |-> <<0, 0>>,
          end |-> <<0, 0>>, turnDirection |-> 0, numPoints |-> 0, i |-> 0,
          startAngleRad |-> 0, angleDiff |-> 0, points |-> << >>]

Init ==
  /\ flightPlan \in FlightPlans
  /\ rejects \in BOOLEAN
  /\ pc = "idle"
  /\ i = 0
  /\ inboundBearing = Fin(0)
  /\ results = << >>
  /\ legRows = << >>
  /\ resolver = NoCall
  /\ arc = NoArc
  /\ UiIdle

----------------------------------------------------------------------------
(* calculateAllLegData, one action per step of its loop *)

\* lines 342-349: the turn recorded for the first leg
FirstTurn(origin) ==
  [escaped |-> FALSE, turnCenterLat |-> Fin(0), turnCenterLon |-> Fin(0),
   straighteningLat |-> Fin(origin.lat), straighteningLon |-> Fin(origin.lon),
   inboundBearing |-> Fin(0), turnDirection |-> 1]

\* lines 364-372: the turn recorded by the catch block
FallbackTurn(inbound, origin) ==
  [escaped |-> FALSE, turnCenterLat |-> Fin(0), turnCenterLon |-> Fin(0),
   straighteningLat |-> Fin(origin.lat), straighteningLon |-> Fin(origin.lon),
   inboundBearing |-> inbound, turnDirection |-> 1]

\* lines 352-363: the turn recorded from the resolver's result sp
ResolvedTurn(inbound, sp) ==
  [escaped |-> sp.thrown, turnCenterLat |-> sp.cLat, turnCenterLon |-> sp.cLon,
   straighteningLat |-> sp.sLat, straighteningLon |-> sp.sLon,
   inboundBearing |-> inbound, turnDirection |-> sp.turnDirection]

\* lines 351-372: try the resolver, fall back when it throws
TryTurn(inbound, origin, sp) ==
  IF sp.thrown THEN FallbackTurn(inbound, origin) ELSE ResolvedTurn(inbound, sp)

\* the turn of leg i without the try/catch of lines 351-372
TurnOfLegNoCatch(idx, inbound, origin, destination, turnRadiusM, rej) ==
  IF idx = 0 THEN FirstTurn(origin)
  ELSE ResolvedTurn(inbound,
         calculateStraighteningPoint(inbound, origin.lat, origin.lon,
           destination.lat, destination.lon, turnRadiusM, rej))

\* the turn of leg i without the first-leg case of lines 342-349
TurnOfLegNoFirst(idx, inbound, origin, destination, turnRadiusM, rej) ==
  TryTurn(inbound, origin,
          calculateStraighteningPoint(inbound, origin.lat, origin.lon,
            destination.lat, destination.lon, turnRadiusM, rej))

\* lines 342-373: the turn of leg i.  escaped = TRUE when an exception
\* leaves the block.
TurnOfLeg(idx, inbound, origin, destination, turnRadiusM, rej) ==
  IF idx = 0 THEN FirstTurn(origin)
  ELSE TryTurn(inbound, origin,
         calculateStraighteningPoint(inbound, origin.lat, origin.lon,
           destination.lat, destination.lon, turnRadiusM, rej))

\* line 384: course = (outboundBearing + declination + 360) % 360
CourseOf(outboundBearing, declination) ==
  IF IsFin(outboundBearing)
  THEN Fin(JsMod(outboundBearing.v + declination + 360, 360))
  ELSE NaN

\* lines 394-408: the LegCalculationResult pushed for the leg
ResultOf(origin, destination, turn, turnRadiusM, outboundBearing, heading) ==
  [escaped |-> turn.escaped,
   originLat |-> origin.lat, originLon |-> origin.lon,
   destinationLat |-> destination.lat, destinationLon |-> destination.lon,
   turnCenterLat |-> turn.turnCenterLat, turnCenterLon |-> turn.turnCenterLon,
   straighteningLat |-> turn.straighteningLat,
   straighteningLon |-> turn.straighteningLon,
   turnRadiusM |-> turnRadiusM,
   inboundBearing |-> turn.inboundBearing,
   outboundBearing |-> outboundBearing,
   heading |-> heading,
   turnDirection |-> turn.turnDirection]

\* lines 383-392: course and heading from the outbound bearing
LegHeadingOf(fp, origin, destination, turn, turnRadiusM, outboundBearing) ==
  ResultOf(origin, destination, turn, turnRadiusM, outboundBearing,
           calculateHeading(CourseOf(outboundBearing, fp.declination),
                            destination.windSpeed, destination.windDir,
                            destination.tas))

\* lines 375-381: the outbound bearing from the straightening point
LegOutbound(fp, origin, destination, turn, turnRadiusM) ==
  LegHeadingOf(fp, origin, destination, turn, turnRadiusM,
               calculateBearing(turn.straighteningLat, turn.straighteningLon,
                                Fin(destination.lat), Fin(destination.lon)))

\* lines 336-373: the turn of the leg
LegTurn(fp, idx, inbound, rej, origin, destination, turnRadiusM) ==
  LegOutbound(fp, origin, destination,
              TurnOfLeg(idx, inbound, origin, destination, turnRadiusM, rej),
              turnRadiusM)

\* lines 333-334: the turn radius from the destination's TAS
LegRadius(fp, idx, inbound, rej, origin, destination) ==
  LegTurn(fp, idx, inbound, rej, origin, destination,
          calculateTurnRadius(destination.tas, fp.bankAngle))

\* lines 330-408: the LegCalculationResult of leg idx
LegResult(fp, idx, inbound, rej) ==
  LegRadius(fp, idx, inbound, rej, fp.points[idx + 1], fp.points[idx + 2])

\* the loop condition one leg short
LoopContinuesShort(idx, fp) == idx < Len(fp.points) - 2

\* line 329: the loop condition
LoopContinues(idx, fp) == idx < Len(fp.points) - 1

\* the next inbound bearing taken from the track, not from the heading
NextInboundTrack(r) == r.outboundBearing

\* line 411: the inbound bearing of the next leg
NextInbound(r) == r.heading

\* the number of legs of a plan
NumLegs(fp) == IF Len(fp.points) < 2 THEN 0 ELSE Len(fp.points) - 1

\* an entry that brings the plan's bank angle into [1, 89] in place
CalcStartClamping ==
  /\ pc = "idle"
  /\ Len(legRows) = NumLegs(flightPlan)
  /\ results' = << >>
  /\ i' = 0
  /\ inboundBearing' = Fin(0)
  /\ pc' = IF Len(flightPlan.points) < 2 THEN "done" ELSE "loop"
  /\ flightPlan' = [flightPlan EXCEPT
                      !.bankAngle = IF @ < 1 THEN 1 ELSE IF @ > 89 THEN 89 ELSE @]
  /\ UNCHANGED <<rejects, legRows, resolver, arc, uiVars>>

\* lines 321-327: entry.  The map layer is rebuilt in an effect, after the
\* sidebar has rendered its route cards.
CalcStart ==
  /\ pc = "idle"
  /\ Len(legRows) = NumLegs(flightPlan)
  /\ results' = << >>
  /\ i' = 0
  /\ inboundBearing' = Fin(0)
  /\ pc' = IF Len(flightPlan.points) < 2 THEN "done" ELSE "loop"
  /\ UNCHANGED <<flightPlan, rejects, legRows, resolver, arc, uiVars>>

\* lines 329-412: one iteration
CalcLeg ==
  /\ pc = "loop"
  /\ LoopContinues(i, flightPlan)
  /\ LET r == LegResult(flightPlan, i, inboundBearing, rejects)
     IN IF r.escaped
        THEN /\ pc' = "thrown"
             /\ UNCHANGED <<i, inboundBearing, results>>
        ELSE /\ results' = Append(results, r)
             /\ inboundBearing' = NextInbound(r)
             /\ i' = i + 1
             /\ pc' = pc
  /\ UNCHANGED <<flightPlan, rejects, legRows, resolver, arc, uiVars>>

\* line 414: return results
CalcReturn ==
  /\ pc = "loop"
  /\ ~LoopContinues(i, flightPlan)
  /\ pc' = "done"
  /\ UNCHANGED <<flightPlan, rejects, i, inboundBearing, results, legRows, resolver, arc, uiVars>>

\* FlightPlanZone renders one RouteCard per leg, in order; each calls
\* calculateLegData(flightPlan, index).
RenderRouteCard ==
  /\ pc = "idle"
  /\ Len(legRows) < Len(flightPlan.points) - 1
  /\ legRows' = Append(legRows, calculateLegData(flightPlan, Len(legRows)))
  /\ UNCHANGED <<flightPlan, rejects, pc, i, inboundBearing, results, resolver, arc, uiVars>>

Next == CalcStart \/ CalcLeg \/ CalcReturn \/ RenderRouteCard

Spec == Init /\ [][Next]_vars

----------------------------------------------------------------------------
(* The same program on short plans near magnetic north: courses on both
   sides of 360 with a light crosswind *)

\* turn points with a wind of 50 kt from the east, and one from the south
HeadingWaypoints ==
  { Wpt(0, 39, 600, 3600, 50, 90),
    Wpt(1, 39, 600, 3600, 50, 90),
    Wpt(1, 40, 400, 6000, 20, 180) }

HeadingPlans ==
  { [points |-> pts, declination |-> dec, bankAngle |-> 30,
     initTimeSec |-> 43200, initFob |-> 12000] :
      pts \in UNION { [1..n -> HeadingWaypoints] : n \in 2..3 },
      dec \in -10..10 }

InitHeading ==
  /\ flightPlan \in HeadingPlans
  /\ rejects \in BOOLEAN
  /\ pc = "idle"
  /\ i = 0
  /\ inboundBearing = Fin(0)
  /\ results = << >>
  /\ legRows = << >>
  /\ resolver = NoCall
  /\ arc = NoArc
  /\ UiIdle

SpecHeading == InitHeading /\ [][Next]_vars

----------------------------------------------------------------------------
(* calculateStraighteningPoint called on its own, over every inbound bearing *)

Positions == { <<w.lat, w.lon>> : w \in Waypoints }

\* turn radii in metres: none, and 1, 2, 4 and 9 plane units
Radii == {0, 27799, 48980, 110000, 244331}

InitResolver ==
  /\ flightPlan = [points |-> << >>, declination |-> 0, bankAngle |-> 30,
                   initTimeSec |-> 43200, initFob |-> 12000]
  /\ rejects = TRUE
  /\ pc = "idle"
  /\ i = 0
  /\ inboundBearing = Fin(0)
  /\ results = << >>
  /\ legRows = << >>
  /\ \E b \in 0..359, p1 \in Positions, p2 \in Positions, r \in Radii :
       resolver = [called |-> FALSE, inboundBearing |-> b, point1 |-> p1,
                   point2 |-> p2, turnRadiusM |-> r, result |-> Thrown]
  /\ arc = NoArc
  /\ UiIdle

Resolve ==
  /\ ~resolver.called
  /\ resolver' = [resolver EXCEPT
       !.called = TRUE,
       !.result = calculateStraighteningPoint(Fin(resolver.inboundBearing),
                    resolver.point1[1], resolver.point1[2],
                    resolver.point2[1], resolver.point2[2],
                    Fin(resolver.turnRadiusM), rejects)]
  /\ UNCHANGED <<flightPlan, rejects, pc, i, inboundBearing, results, legRows, arc, uiVars>>

NextResolver == Resolve

SpecResolver == InitResolver /\ [][NextResolver]_vars

----------------------------------------------------------------------------
(* generateArcPoints, one action per step of its loop.  Angles are in
   hundredths of a degree (36000 = 2 * Math.PI), the points are sampled at
   whole degrees. *)

\* bounds of the model
MaxArcPoints == 4

\* the engine's variables, which generateArcPoints does not touch
engineVars == <<flightPlan, rejects, pc, i, inboundBearing, results, legRows,
                resolver, uiVars>>

\* lines 234-239: an angle of Math.atan2 brought into [0, 2 * Math.PI)
NormalizeAngle(angleRad) == IF angleRad < 0 THEN angleRad + 36000 ELSE angleRad

\* lines 232-239: the angle of the point p seen from the centre c
ArcAngle(c, p) == NormalizeAngle(Atan2Centi(p.y - c.y, p.x - c.x))

\* the sweep along the shorter path, whatever the turn direction
SweepShortest(angleDiff, turnDirection) ==
  IF angleDiff > 18000 THEN angleDiff - 36000
  ELSE IF angleDiff < -18000 THEN angleDiff + 36000
  ELSE angleDiff

\* lines 242-248: angleDiff brought to the turn direction
SweepOf(angleDiff, turnDirection) ==
  IF turnDirection = 1 /\ angleDiff < 0 THEN angleDiff + 36000
  ELSE IF turnDirection = -1 /\ angleDiff > 0 THEN angleDiff - 36000
  ELSE angleDiff

\* lines 225-248: the locals before the loop
ArcEntered(a, startAngleRad, endAngleRad) ==
  [a EXCEPT !.pc = "loop", !.i = 0, !.points = << >>,
            !.startAngleRad = startAngleRad,
            !.angleDiff = SweepOf(endAngleRad - startAngleRad, a.turnDirection)]

\* lines 225-239: the projections of centre, start and end
ArcProjected(a, c, s, e) == ArcEntered(a, ArcAngle(c, s), ArcAngle(c, e))

\* lines 251-252: angle = startAngleRad + angleDiff * (i / numPoints),
\* numPoints > 0
ArcAngleAt(startAngleRad, angleDiff, k, numPoints) ==
  startAngleRad + RoundDiv(angleDiff * k, numPoints)

\* lines 257-263: the point of the circle at a whole number of degrees
ArcPlanePoint(c, r, angle) ==
  [x |-> c.x + RoundDiv(r * CosD(angle), Scale),
   y |-> c.y + RoundDiv(r * SinD(angle), Scale)]

\* lines 266-267: the point pushed, as [lat, lon]
ArcLatLon(p) == [lat |-> Fin(p.lat), lon |-> Fin(p.lon)]

\* lines 257-267 for the plane point p
ArcUnprojected(p) == ArcLatLon(transverseMercatorToLatLon(p.x, p.y))

\* lines 251-267: the point sampled at step k, numPoints > 0
ArcPointAt(a, k) ==
  ArcUnprojected(
    ArcPlanePoint(latLonToTransverseMercator(a.center[1], a.center[2]),
                  RoundDiv(a.radiusM, PlaneUnitM),
                  RoundDiv(ArcAngleAt(a.startAngleRad, a.angleDiff, k, a.numPoints),
                           100)))

\* the loop condition without the last point
ArcContinuesShort(k, numPoints) == k < numPoints

\* line 250: the loop condition
ArcContinues(k, numPoints) == k <= numPoints

\* lines 225-248: entry
ArcStart ==
  /\ arc.pc = "call"
  /\ arc' = ArcProjected(arc,
              latLonToTransverseMercator(arc.center[1], arc.center[2]),
              latLonToTransverseMercator(arc.start[1], arc.start[2]),
              latLonToTransverseMercator(arc.end[1], arc.end[2]))
  /\ UNCHANGED engineVars

\* lines 250-268: one iteration.  With numPoints = 0, t = 0 / 0 is NaN and
\* so are angle, px and py: the projection library throws or hands NaN back.
ArcPoint ==
  /\ arc.pc = "loop"
  /\ ArcContinues(arc.i, arc.numPoints)
  /\ arc' = IF arc.numPoints = 0
            THEN IF rejects
                 THEN [arc EXCEPT !.pc = "thrown"]
                 ELSE [arc EXCEPT !.i = arc.i + 1,
                         !.points = Append(arc.points, [lat |-> NaN, lon |-> NaN])]
            ELSE [arc EXCEPT !.i = arc.i + 1,
                    !.points = Append(arc.points, ArcPointAt(arc, arc.i))]
  /\ UNCHANGED engineVars

\* line 270: return points
ArcReturn ==
  /\ arc.pc = "loop"
  /\ ~ArcContinues(arc.i, arc.numPoints)
  /\ arc' = [arc EXCEPT !.pc = "done"]
  /\ UNCHANGED engineVars

\* the centre of the sampled turns and the four points of its circle of one
\* degree (east, north, west, south)
ArcCenter == <<1, 40>>
ArcRadiusM == 111195
CirclePoints == { <<1, 41>>, <<2, 40>>, <<1, 39>>, <<0, 40>> }

InitArc ==
  /\ flightPlan = [points |-> << >>, declination |-> 0, bankAngle |-> 30,
                   initTimeSec |-> 43200, initFob |-> 12000]
  /\ rejects \in BOOLEAN
  /\ pc = "idle"
  /\ i = 0
  /\ inboundBearing = Fin(0)
  /\ results = << >>
  /\ legRows = << >>
  /\ resolver = NoCall
  /\ \E s \in CirclePoints, e \in CirclePoints, d \in {CW, CCW},
        n \in 0..MaxArcPoints :
       arc = [NoArc EXCEPT !.pc = "call", !.center = ArcCenter,
                !.radiusM = ArcRadiusM, !.start = s, !.end = e,
                !.turnDirection = d, !.numPoints = n]
  /\ UiIdle

NextArc == ArcStart \/ ArcPoint \/ ArcReturn

SpecArc == InitArc /\ [][NextArc]_vars

----------------------------------------------------------------------------
(* Properties *)

\* the sum of ete over the rendered legs 1..k (legs 0..k-1 of the source)
RECURSIVE SumEte(_)
SumEte(k) == IF k = 0 THEN Fin(0) ELSE FAdd(SumEte(k - 1), legRows[k].ete)

\* the sum of legFuel over the rendered legs 1..k
RECURSIVE SumLegFuel(_)
SumLegFuel(k) == IF k = 0 THEN Fin(0) ELSE FAdd(SumLegFuel(k - 1), legRows[k].legFuel)

\* C1: for every leg, calculateLegData returns eta = (eta of the leg before,
\* or initTimeSec for leg 0) + ete, which is initTimeSec + the sum of ete
\* over the legs up to it.
C1_EtaChain ==
  \A k \in 1..Len(legRows) :
    /\ legRows[k].eta =
         FAdd(IF k = 1 THEN Fin(flightPlan.initTimeSec) ELSE legRows[k - 1].eta,
              legRows[k].ete)
    /\ legRows[k].eta = FAdd(Fin(flightPlan.initTimeSec), SumEte(k))

C1_Witness ==
  /\ Len(legRows) >= 3
  /\ \A k \in 1..3 : IsFin(legRows[k].ete) /\ legRows[k].ete.v > 0
  /\ legRows[3].eta.v > legRows[2].eta.v

\* C2: for every leg, calculateLegData returns efr = (efr of the leg before,
\* or initFob for leg 0) - legFuel, which is initFob - the sum of legFuel
\* over the legs up to it.
C2_EfrChain ==
  \A k \in 1..Len(legRows) :
    /\ legRows[k].efr =
         FSub(IF k = 1 THEN Fin(flightPlan.initFob * 36) ELSE legRows[k - 1].efr,
              legRows[k].legFuel)
    /\ legRows[k].efr = FSub(Fin(flightPlan.initFob * 36), SumLegFuel(k))

C2_Witness ==
  /\ Len(legRows) >= 3
  /\ \A k \in 1..3 : IsFin(legRows[k].legFuel) /\ legRows[k].legFuel.v > 0
  /\ legRows[3].efr.v < legRows[2].efr.v

\* C3: calculateAllLegData returns no leg for a plan of fewer than 2
\* waypoints and n-1 legs for n >= 2 waypoints, leg k running from waypoint
\* k to waypoint k+1, and no exception leaves it.
C3_LegCount ==
  /\ pc # "thrown"
  /\ pc = "done" =>
       /\ Len(results) = (IF Len(flightPlan.points) < 2 THEN 0
                          ELSE Len(flightPlan.points) - 1)
       /\ \A k \in 1..Len(results) :
            /\ results[k].originLat = flightPlan.points[k].lat
            /\ results[k].originLon = flightPlan.points[k].lon
            /\ results[k].destinationLat = flightPlan.points[k + 1].lat
            /\ results[k].destinationLon = flightPlan.points[k + 1].lon

\* the turn resolver threw for the recorded leg k (k >= 2: legs 1.. of the source)
ResolverThrew(k) ==
  calculateStraighteningPoint(results[k].inboundBearing,
    results[k].originLat, results[k].originLon,
    results[k].destinationLat, results[k].destinationLon,
    results[k].turnRadiusM, rejects).thrown

C3_Witness ==
  /\ pc = "done"
  /\ Len(flightPlan.points) = 4
  /\ Len(results) = 3
  /\ ResolverThrew(2)
  /\ IsNaN(results[1].heading)

\* C4: legs are resolved left to right, one at a time, and the inbound
\* bearing recorded for (and passed to the resolver of) each leg after the
\* first is the heading computed for the leg before it.
C4_InboundChain ==
  [][ results' # results =>
        \/ results' = << >>
        \/ /\ Len(results') = Len(results) + 1
           /\ SubSeq(results', 1, Len(results)) = results
           /\ i = Len(results)
           /\ results'[Len(results')].originLat = flightPlan.points[i + 1].lat
           /\ results'[Len(results')].originLon = flightPlan.points[i + 1].lon
           /\ Len(results) >= 1 =>
                /\ results'[Len(results')].inboundBearing
                     = results[Len(results)].heading
                /\ inboundBearing = results[Len(results)].heading ]_vars

C4_Witness ==
  /\ Len(results) >= 3
  /\ IsFin(results[2].heading)
  /\ results[2].heading # results[2].outboundBearing
  /\ results[3].inboundBearing = results[2].heading
  /\ results[3].inboundBearing.v # 0

C6_NoNaNHeading ==
  /\ \A k \in 1..Len(results) :
       IsFin(results[k].outboundBearing) => ~IsNaN(results[k].heading)
  /\ \A k \in 1..Len(legRows) : ~IsNaN(legRows[k].heading)

\* C7: errors are leg-scoped: a leg whose own time en route and heading are
\* numbers has a finite ETA and EFR whatever happened on the legs before it,
\* and a leg after one with a NaN heading still has a finite turn geometry
\* and inbound bearing.
C7_LegScoped ==
  /\ \A k \in 1..Len(legRows) :
       (IsFin(legRows[k].ete) /\ IsFin(legRows[k].heading)) =>
         (IsFin(legRows[k].eta) /\ IsFin(legRows[k].efr))
  /\ \A k \in 2..Len(results) :
       (IsFin(results[k].turnRadiusM) /\ results[k].turnRadiusM.v > 0) =>
         /\ IsFin(results[k].straighteningLat)
         /\ IsFin(results[k].straighteningLon)
         /\ IsFin(results[k].inboundBearing)

\* C8: calculateTurnRadius fails for a bank angle outside (0, 90): no leg is
\* emitted for such a plan, and the radius of every emitted leg is finite
\* and positive.
C8_BankDomain ==
  /\ (flightPlan.bankAngle <= 0 \/ flightPlan.bankAngle >= 90) => results = << >>
  /\ \A k \in 1..Len(results) :
       IsFin(results[k].turnRadiusM) /\ results[k].turnRadiusM.v > 0

ResolverDiff ==
  (BearingDeg(resolver.point1[1], resolver.point1[2],
              resolver.point2[1], resolver.point2[2])
   - resolver.inboundBearing) % 360

\* C10: calculateStraighteningPoint turns counter-clockwise exactly when
\* (approxOutboundBearing - inboundBearing) mod 360 is above 180 and
\* clockwise otherwise, 0 and 180 included, for every inbound bearing in
\* 0..359.
C10_TurnDirection ==
  (resolver.called /\ ~resolver.result.thrown) =>
    /\ resolver.result.turnDirection \in {CW, CCW}
    /\ resolver.result.turnDirection = CCW <=> ResolverDiff > 180
    /\ resolver.result.turnDirection = CW <=> ResolverDiff <= 180

C10_Witness ==
  /\ resolver.called
  /\ ~resolver.result.thrown
  /\ ResolverDiff = 180
  /\ resolver.turnRadiusM > 0
  /\ resolver.result.turnDirection = CW

\* the plane coordinates a direct call of the resolver worked with
ResolverPlane == resolver.result.plane

\* lines 157-168 at the point returned: the tangent of the arc there (the
\* radius rotated 90 degrees in the turn direction) dotted with the vector
\* to the destination
ResolverDot ==
  TangentDot(ResolverPlane.sx, ResolverPlane.sy, ResolverPlane.cx, ResolverPlane.cy,
             ResolverPlane.dx, ResolverPlane.dy, resolver.result.turnDirection)

\* |p - c|^2 - r^2 at the point p returned: 0 on the turn circle
CircleError ==
  (ResolverPlane.sx - ResolverPlane.cx) * (ResolverPlane.sx - ResolverPlane.cx)
  + (ResolverPlane.sy - ResolverPlane.cy) * (ResolverPlane.sy - ResolverPlane.cy)
  - ResolverPlane.r * ResolverPlane.r

\* (p - c).(d - c) - r^2 at the point p returned: 0 when the line from p
\* to the destination d is tangent to the circle at p
TangencyError ==
  (ResolverPlane.sx - ResolverPlane.cx) * (ResolverPlane.dx - ResolverPlane.cx)
  + (ResolverPlane.sy - ResolverPlane.cy) * (ResolverPlane.dy - ResolverPlane.cy)
  - ResolverPlane.r * ResolverPlane.r

\* the destination is strictly outside the turn circle
DestinationOutside ==
  (ResolverPlane.dx - ResolverPlane.cx) * (ResolverPlane.dx - ResolverPlane.cx)
  + (ResolverPlane.dy - ResolverPlane.cy) * (ResolverPlane.dy - ResolverPlane.cy)
  > ResolverPlane.r * ResolverPlane.r

\* the call returned from the |B| < 1e-10 branch with B = 0 in the source's
\* arithmetic too: the inbound bearing is 0 or 180 (sin is 0, cy = sy) and
\* origin and destination have the same projected y
ReturnedFromLineBranch ==
  /\ resolver.called
  /\ ~resolver.result.thrown
  /\ resolver.result.branch = "line"
  /\ resolver.inboundBearing \in {0, 180}
  /\ resolver.turnRadiusM > 0
  /\ DestinationOutside

\* C11: whenever calculateStraighteningPoint returns a result, here from
\* the |B| < 1e-10 branch, the straightening point lies on the turn circle
\* (within the rounding of one plane unit), the line from it to the
\* destination is tangent to the circle, and the arc's direction of travel
\* there has a positive dot product with the vector to the destination.
C11_TangentPoint ==
  ReturnedFromLineBranch =>
    /\ Abs(CircleError) <= ResolverPlane.r
    /\ Abs(TangencyError) <= Abs(ResolverPlane.dx - ResolverPlane.cx)
    /\ ResolverDot > 0

\* the plane point of a [lat, lon] pair of the arc's arguments
ArcPlane(p) == latLonToTransverseMercator(p[1], p[2])

\* the second point of the arc in the plane (step 1 of the loop)
ArcSecondPoint ==
  ArcPlanePoint(ArcPlane(arc.center), RoundDiv(arc.radiusM, PlaneUnitM),
                RoundDiv(ArcAngleAt(arc.startAngleRad, arc.angleDiff, 1, arc.numPoints),
                         100))

\* the resolver's direction of travel at the start point (lines 95-98 and
\* 160-163: the radius rotated 90 degrees in the turn direction) dotted with
\* the arc's first step
ArcFirstStepDot ==
  TangentDot(ArcPlane(arc.start).x, ArcPlane(arc.start).y,
             ArcPlane(arc.center).x, ArcPlane(arc.center).y,
             ArcSecondPoint.x, ArcSecondPoint.y, arc.turnDirection)

C13_ArcEndpoints ==
  /\ arc.pc # "thrown"
  /\ arc.pc = "done" =>
       /\ Len(arc.points) = arc.numPoints + 1
       /\ arc.points[1] = [lat |-> Fin(arc.start[1]), lon |-> Fin(arc.start[2])]
       /\ arc.points[Len(arc.points)]
            = [lat |-> Fin(arc.end[1]), lon |-> Fin(arc.end[2])]

\* C14: every heading the engine produces for a leg lies in [0, 360): the
\* heading of calculateHeading recorded by calculateAllLegData, and the
\* heading calculateLegData returns.  Headings are rounded to whole degrees
\* here, so a heading below 360 reads 360 at most.
C14_HeadingRange ==
  /\ \A k \in 1..Len(results) :
       IsFin(results[k].heading) =>
         (results[k].heading.v >= 0 /\ results[k].heading.v <= 360)
  /\ \A k \in 1..Len(legRows) :
       IsFin(legRows[k].heading) =>
         (legRows[k].heading.v >= 0 /\ legRows[k].heading.v <= 360)

\* leg k of the plan (k >= 2) has a turn: the resolver returned a
\* straightening point that is not the origin waypoint
HasTurn(k) ==
  /\ ~ResolverThrew(k)
  /\ IsFin(results[k].straighteningLat)
  /\ IsFin(results[k].straighteningLon)
  /\ \/ results[k].straighteningLat.v # results[k].originLat
     \/ results[k].straighteningLon.v # results[k].originLon

\* C15: for every leg that has a turn, the outbound bearing of
\* calculateAllLegData and the course and distance reported by
\* calculateLegData (hence its time en route and leg fuel) are measured from
\* the straightening point to the destination, not from the origin waypoint.
C15_FromStraighteningPoint ==
  \A k \in 2..Len(results) :
    (HasTurn(k) /\ Len(legRows) >= k) =>
      /\ results[k].outboundBearing
           = Fin(BearingDeg(results[k].straighteningLat.v,
                            results[k].straighteningLon.v,
                            results[k].destinationLat, results[k].destinationLon))
      /\ legRows[k].course
           = JsMod(BearingDeg(results[k].straighteningLat.v,
                              results[k].straighteningLon.v,
                              results[k].destinationLat, results[k].destinationLon)
                   + flightPlan.declination + 360, 360)
      /\ legRows[k].distance
           = RoundDiv(LengthMeters(results[k].straighteningLat.v,
                                   results[k].straighteningLon.v,
                                   results[k].destinationLat,
                                   results[k].destinationLon) * 100, 1852)

\* the ground speed of a leg flown on course with the wind and TAS of
\* waypoint w, in tenths of a knot
GroundSpeedAt(w, course) ==
  w.tas * 10 + TailComponent(w.windSpeed, WindAngle(w.windDir, course))

\* the heading of calculateLegData's wind triangle solved with waypoint w
WindTriangleHeading(w, course) ==
  LegHeading(course,
             AsinRatioDeg(CrossComponent(w.windSpeed, WindAngle(w.windDir, course)),
                          GroundSpeedAt(w, course)))

\* C16: the wind triangle of leg k uses the wind speed, wind direction and
\* TAS of the destination waypoint k+1 in every computation of the leg: the
\* heading of calculateAllLegData, and the heading and time en route of
\* calculateLegData, are those of the destination's wind and TAS (so they do
\* not depend on the origin waypoint's wind or TAS).
C16_DestinationWind ==
  /\ \A k \in 1..Len(results) :
       IsFin(results[k].outboundBearing) =>
         results[k].heading
           = calculateHeading(CourseOf(results[k].outboundBearing,
                                       flightPlan.declination),
                              flightPlan.points[k + 1].windSpeed,
                              flightPlan.points[k + 1].windDir,
                              flightPlan.points[k + 1].tas)
  /\ \A k \in 1..Len(legRows) :
       /\ legRows[k].heading
            = WindTriangleHeading(flightPlan.points[k + 1], legRows[k].course)
       /\ legRows[k].ete
            = EteOf(legRows[k].distance,
                    GroundSpeedAt(flightPlan.points[k + 1], legRows[k].course))

----------------------------------------------------------------------------
(* calculateAllLegData as one call: lines 318-415 *)

RECURSIVE AllLegDataFrom(_, _, _, _, _)
RECURSIVE AllLegDataPush(_, _, _, _, _)

\* lines 394-411: push the result and go on with its heading, unless the
\* leg threw out of the function
AllLegDataPush(fp, rej, idx, acc, r) ==
  IF r.escaped
  THEN [thrown |-> TRUE, results |-> acc]
  ELSE AllLegDataFrom(fp, rej, idx + 1, NextInbound(r), Append(acc, r))

\* lines 329-414: the loop from leg idx on
AllLegDataFrom(fp, rej, idx, inbound, acc) ==
  IF LoopContinues(idx, fp)
  THEN AllLegDataPush(fp, rej, idx, acc, LegResult(fp, idx, inbound, rej))
  ELSE [thrown |-> FALSE, results |-> acc]

\* calculateAllLegData(flightPlan)
calculateAllLegData(fp, rej) ==
  IF Len(fp.points) < 2
  THEN [thrown |-> FALSE, results |-> << >>]
  ELSE AllLegDataFrom(fp, rej, 0, Fin(0), << >>)

\* bound of the plans on which the two functions are called a second time
MaxCallPoints == 3

\* the program on plans of at most MaxCallPoints turn points
InitCall == Init /\ Len(flightPlan.points) <= MaxCallPoints

SpecCall == InitCall /\ [][Next]_vars

----------------------------------------------------------------------------
(* usePersistedFlightPlan.ts: the hook *)

\* what the hook does not touch
notHookVars == <<flightPlan, rejects, pc, i, inboundBearing, results, legRows,
                 resolver, arc, field, edit, map>>

\* lines 128-135: the state initializer with the outcome of loadFlightPlan,
\* and the refs
MountWith(saved, load) ==
  /\ hook' = [mounted |-> TRUE, saved |-> saved,
              flightPlan |-> IF load.loaded THEN load.plan ELSE DefaultPlan,
              isInitialMount |-> TRUE, effectPending |-> TRUE,
              timer |-> NoTimer, edits |-> 0, rejected |-> FALSE]
  /\ storage' = load.item

\* the component mounts: lines 128-131
Mount ==
  /\ ~hook.mounted
  /\ MountWith(storage, loadFlightPlan(storage))
  /\ UNCHANGED notHookVars

\* the effect without the test of isInitialMount
RunEffectOnMountToo ==
  /\ hook.mounted
  /\ hook.effectPending
  /\ hook' = [hook EXCEPT !.isInitialMount = FALSE, !.effectPending = FALSE,
                          !.timer = [pending |-> TRUE, plan |-> hook.flightPlan]]
  /\ UNCHANGED <<storage, notHookVars>>

\* lines 138-161: the effect after a render, with the cleanup of the effect
\* before it
RunEffect ==
  /\ hook.mounted
  /\ hook.effectPending
  /\ hook' = IF hook.isInitialMount
             THEN [hook EXCEPT !.isInitialMount = FALSE, !.effectPending = FALSE]
             ELSE [hook EXCEPT !.effectPending = FALSE,
                               !.timer = [pending |-> TRUE, plan |-> hook.flightPlan]]
  /\ UNCHANGED <<storage, notHookVars>>

\* the plans a user edit makes of a plan
Edits(plan) ==
  { [plan EXCEPT !.declination = Fin(7)], [plan EXCEPT !.declination = NaN] }

\* the changes of the plan followed after one mount
MaxEdits == 2

\* setFlightPlan(updatedPlan): a new render with effects flushed before it
SetFlightPlan ==
  /\ hook.mounted
  /\ ~hook.effectPending
  /\ hook.edits < MaxEdits
  /\ \E plan \in Edits(hook.flightPlan) :
       /\ plan # hook.flightPlan
       /\ hook' = [hook EXCEPT !.flightPlan = plan, !.effectPending = TRUE,
                               !.edits = @ + 1, !.rejected = FALSE]
  /\ UNCHANGED <<storage, notHookVars>>

\* lines 151-153 and 95-116: the debounce timer fires; setItem may throw,
\* which saveFlightPlan swallows
TimerFires ==
  /\ hook.timer.pending
  /\ \E stored \in BOOLEAN :
       /\ hook' = [hook EXCEPT !.timer = NoTimer, !.rejected = ~stored]
       /\ storage' = IF stored THEN SavedItem(hook.timer.plan) ELSE storage
  /\ UNCHANGED notHookVars

\* lines 156-160: the component unmounts
Unmount ==
  /\ hook.mounted
  /\ hook' = NoHook
  /\ UNCHANGED <<storage, notHookVars>>

\* stored plan objects
StoredPlans ==
  { Obj(v, FALSE, theatre, name, points, declination, Fin(30)) :
      v \in {Undefined, "1.0"},
      theatre \in {Undefined, "", "caucasus"},
      name \in {Undefined, "Plan"},
      points \in {ArrayOf(<< >>), ArrayOf(<<PointOf(Fin(1))>>),
                  ArrayOf(<<PointOf(NoNumber)>>), NoArray},
      declination \in {Fin(5), NoNumber} }

\* what the storage may hold when the application starts
StoredItems ==
  {NoItem, EmptyItem, GarbageItem, JsonItem(NoObj, NoObj)}
    \cup { JsonItem(EmptyObj(v, TRUE), plan) :
             v \in {Undefined, "1.0", "1.1"}, plan \in StoredPlans }
    \cup { JsonItem(plan, NoObj) : plan \in StoredPlans }

InitStorage ==
  /\ flightPlan = [points |-> << >>, declination |-> 0, bankAngle |-> 30,
                   initTimeSec |-> 43200, initFob |-> 12000]
  /\ rejects = FALSE
  /\ pc = "idle"
  /\ i = 0
  /\ inboundBearing = Fin(0)
  /\ results = << >>
  /\ legRows = << >>
  /\ resolver = NoCall
  /\ arc = NoArc
  /\ storage \in StoredItems
  /\ hook = NoHook
  /\ field = NoField
  /\ MapIdle

NextStorage == Mount \/ RunEffect \/ SetFlightPlan \/ TimerFires \/ Unmount

SpecStorage == InitStorage /\ [][NextStorage]_vars

\* the state initializer has just run
JustMounted == hook.mounted /\ hook.isInitialMount /\ hook.effectPending

\* the version of the stored data and the stored plan, as written
StoredVersion(item) == item.top.version
StoredPlan(item) == IF item.top.hasFlightPlan THEN item.inner ELSE item.top

\* C18 as stated: loading stored data that is unversioned or of a version
\* other than 1.1 and has no theatre yields the stored plan with theatre
\* 'syria_old' and every other field unchanged; stored data at version 1.1
\* is returned as stored; the plan of the hook never has a version field.
C18_Migration ==
  /\ hook.mounted => hook.flightPlan.version = Undefined
  /\ (JustMounted /\ hook.saved.kind = "json" /\ hook.saved.top.isObject) =>
       /\ (StoredVersion(hook.saved) # "1.1"
           /\ StoredPlan(hook.saved).theatre = Undefined) =>
            hook.flightPlan = [StoredPlan(hook.saved) EXCEPT !.theatre = "syria_old"]
       /\ StoredVersion(hook.saved) = "1.1" =>
            hook.flightPlan = StoredPlan(hook.saved)

\* the stored value is a plan object without version and flightPlan
\* properties, or a wrapper {version, flightPlan} around a plan object
WellFormed(item) ==
  /\ item.kind = "json"
  /\ item.top.isObject
  /\ item.top.hasFlightPlan = Truthy(item.top.version)
  /\ item.top.version # Undefined => item.top.hasFlightPlan

\* C18 amended: for well-formed stored data whose plan passes validation
\* once a missing or empty theatre is filled in, loading data that is
\* unversioned or of a version other than 1.1 and has no theatre yields the
\* stored plan with theatre 'syria_old' and every other field unchanged;
\* valid stored data at version 1.1 is returned as stored, with no
\* migration; the storage is left as it was; the wrapper's version is never
\* copied into the plan.
C18_MigrationOfValidData ==
  (JustMounted /\ WellFormed(hook.saved)) =>
    /\ (StoredVersion(hook.saved) # "1.1"
        /\ ~Truthy(StoredPlan(hook.saved).theatre)
        /\ isValidFlightPlan([StoredPlan(hook.saved) EXCEPT !.theatre = "syria_old"])) =>
         /\ hook.flightPlan = [StoredPlan(hook.saved) EXCEPT !.theatre = "syria_old"]
         /\ storage = hook.saved
    /\ (StoredVersion(hook.saved) = "1.1"
        /\ isValidFlightPlan(StoredPlan(hook.saved))) =>
         /\ hook.flightPlan = StoredPlan(hook.saved)
         /\ storage = hook.saved
    /\ hook.flightPlan.version = StoredPlan(hook.saved).version
       \/ hook.flightPlan = DefaultPlan

C18_Witness ==
  /\ JustMounted
  /\ WellFormed(hook.saved)
  /\ StoredVersion(hook.saved) = "1.0"
  /\ StoredPlan(hook.saved).theatre = Undefined
  /\ StoredPlan(hook.saved).name = "Plan"
  /\ Len(StoredPlan(hook.saved).points.items) = 1
  /\ hook.flightPlan = [hook.saved.inner EXCEPT !.theatre = "syria_old"]
  /\ storage = hook.saved

\* the stored value cannot be parsed as JSON
Unparseable(item) == item.kind \in {"empty", "garbage"}

\* the stored value parses but fails the validation of loadFlightPlan
FailsValidation(item) ==
  /\ item.kind = "json"
  /\ ~isValidFlightPlan(Migrate(FlightPlanData(item), VersionOf(item)))

\* C19 as stated: when the stored value cannot be parsed as JSON or fails
\* flight-plan validation, the hook starts from the default plan and the
\* storage key is removed.
C19_InvalidCleared ==
  (JustMounted /\ (Unparseable(hook.saved) \/ FailsValidation(hook.saved))) =>
    /\ hook.flightPlan = DefaultPlan
    /\ storage = NoItem

\* C19 amended: when the stored value is a non-empty string that cannot be
\* parsed as JSON, or fails flight-plan validation, the hook starts from the
\* default plan and the storage key is removed; an empty stored string also
\* gives the default plan but is left in the storage.
C19_NonEmptyInvalidCleared ==
  /\ (JustMounted /\ (hook.saved.kind = "garbage" \/ FailsValidation(hook.saved))) =>
       /\ hook.flightPlan = DefaultPlan
       /\ storage = NoItem
  /\ (JustMounted /\ hook.saved.kind = "empty") =>
       /\ hook.flightPlan = DefaultPlan
       /\ storage = EmptyItem

C19_Witness ==
  /\ JustMounted
  /\ hook.saved.kind = "json"
  /\ IsWrapper(hook.saved)
  /\ VersionOf(hook.saved) = "1.1"
  /\ hook.saved.inner.theatre = Undefined
  /\ hook.flightPlan = DefaultPlan
  /\ storage = NoItem

----------------------------------------------------------------------------
(* FlightPlanZone.tsx: one TimeEditableField and its parent *)

\* bounds of the model
MaxEditLen == 9
MaxSaves == 1

\* what the field does not touch
notFieldVars == <<flightPlan, rejects, pc, i, inboundBearing, results, legRows,
                  resolver, arc, storage, hook, edit, map>>

\* the characters the user types: two digits, the colon, and a minus sign
TypedChars == {"2", "6", ":", "-"}

\* the value of the input element after one keystroke or deletion
InsertAt(str, k, c) == SubSeq(str, 1, k) \o <<c>> \o SubSeq(str, k + 1, Len(str))
DeleteAt(str, k) == SubSeq(str, 1, k - 1) \o SubSeq(str, k + 1, Len(str))

\* the input values one user action can produce from the value shown
UserInputs(str) ==
  { InsertAt(str, k, c) : k \in 0..Len(str), c \in TypedChars }
    \cup { DeleteAt(str, k) : k \in 1..Len(str) }
    \cup { << >> }

\* lines 601-602: only digits and colons are accepted
InputAccepted(inputValue) ==
  \A k \in 1..Len(inputValue) : IsDigit(inputValue[k]) \/ inputValue[k] = ":"

\* lines 651-656: a click on the displayed time starts editing
ClickField ==
  /\ field.pc = "shown"
  /\ field.calls < MaxSaves
  /\ field' = [field EXCEPT !.pc = "editing",
                            !.editValue = secondsToTimeString(field.timeSec),
                            !.prevLength = Len(secondsToTimeString(field.timeSec)),
                            !.key = "none", !.typed = << >>]
  /\ UNCHANGED notFieldVars

\* lines 597-632: the state after handleInputChange
ChangedTo(editValue, accepted) ==
  [field EXCEPT !.editValue = editValue,
                !.prevLength = IF accepted THEN Len(editValue) ELSE @]

\* onChange of the input element
InputChange ==
  /\ field.pc = "editing"
  /\ \E inputValue \in UserInputs(field.editValue) :
       /\ Len(inputValue) <= MaxEditLen
       /\ field' = ChangedTo(handleInputChange(field.editValue, field.prevLength,
                                               inputValue),
                             InputAccepted(inputValue))
  /\ UNCHANGED notFieldVars

\* lines 536-580 and 903-907: the state after handleSave; the parent
\* stores the new time and passes it back as timeSec
SavedAs(save) ==
  IF save.call
  THEN [field EXCEPT !.pc = "shown", !.calls = @ + 1, !.last = save.time,
                     !.input = field.editValue,
                     !.key = "Enter", !.typed = field.editValue,
                     !.timeSec = save.time[1] * 3600 + save.time[2] * 60 + save.time[3]]
  ELSE [field EXCEPT !.pc = "shown",
                     !.key = "Enter", !.typed = field.editValue,
                     !.editValue = secondsToTimeString(field.timeSec)]

\* Enter or blur: handleSave
SaveField ==
  /\ field.pc = "editing"
  /\ field' = SavedAs(handleSave(field.editValue))
  /\ UNCHANGED notFieldVars

\* an Escape that saves what was typed, as Enter does
CancelFieldSaving ==
  /\ field.pc = "editing"
  /\ field' = [SavedAs(handleSave(field.editValue)) EXCEPT !.key = "Escape"]
  /\ UNCHANGED notFieldVars

\* Escape: lines 582-587 and 589-595, handleCancel; key and typed record
\* the key that ended the editing and the input value at that moment
CancelField ==
  /\ field.pc = "editing"
  /\ field' = [field EXCEPT !.pc = "shown",
                            !.key = "Escape", !.typed = field.editValue,
                            !.editValue = secondsToTimeString(field.timeSec)]
  /\ UNCHANGED notFieldVars

\* the initial times of the plan
TimeSecs == {80782, 43200}

InitField ==
  /\ flightPlan = [points |-> << >>, declination |-> 0, bankAngle |-> 30,
                   initTimeSec |-> 43200, initFob |-> 12000]
  /\ rejects = FALSE
  /\ pc = "idle"
  /\ i = 0
  /\ inboundBearing = Fin(0)
  /\ results = << >>
  /\ legRows = << >>
  /\ resolver = NoCall
  /\ arc = NoArc
  /\ storage = NoItem
  /\ hook = NoHook
  /\ MapIdle
  /\ \E timeSec \in TimeSecs :
       field = [NoField EXCEPT !.pc = "shown", !.timeSec = timeSec,
                               !.editValue = secondsToTimeString(timeSec)]

NextField == ClickField \/ InputChange \/ SaveField \/ CancelField

SpecField == InitField /\ [][NextField]_vars

\* every part of the saved input between colons is a non-empty string of
\* digits, and there are at most three parts
ComponentsEntered(parts) ==
  /\ Len(parts) \in 1..3
  /\ \A k \in 1..Len(parts) :
       Len(parts[k]) > 0 /\ \A j \in 1..Len(parts[k]) : IsDigit(parts[k][j])

\* the k-th component the user entered, 0 when there is none
Component(parts, k) == IF k <= Len(parts) THEN ParseInt(parts[k]) ELSE 0

\* the time entered, each component clamped to its range
EnteredTime(parts) ==
  <<Clamp(Component(parts, 1), 23), Clamp(Component(parts, 2), 59),
    Clamp(Component(parts, 3), 59)>>

\* C20: whenever TimeEditableField calls onChange, the hour is in 0..23, the
\* minute in 0..59 and the second in 0..59; a component out of range is
\* clamped to its nearest bound and the other components are the ones the
\* user entered.
C20_SavedTime ==
  field.calls > 0 =>
    /\ field.last[1] \in 0..23
    /\ field.last[2] \in 0..59
    /\ field.last[3] \in 0..59
    /\ ComponentsEntered(SplitColon(field.input)) =>
         field.last = EnteredTime(SplitColon(field.input))

\* the field until its first call of onChange: a click after the call resets
\* editValue and prevLength, so the field goes on as a new one with the new
\* timeSec
NextUnsaved ==
  \/ field.calls = 0 /\ ClickField
  \/ field.calls = 0 /\ InputChange
  \/ field.calls = 0 /\ SaveField
  \/ field.calls = 0 /\ CancelField

SpecUnsaved == InitField /\ [][NextUnsaved]_vars

\* C21: pressing Escape in edit mode leaves edit mode without any call to
\* onChange and the field shows the original time again, whatever was typed
\* before; saving an input that contains no digit likewise never calls
\* onChange and restores the original time.
C21_EscapeRestores ==
  [][ (field.pc = "editing"
       /\ \/ field'.key = "Escape"
          \/ field'.key = "Enter" /\ DigitsOnly(field.editValue) = << >>) =>
        /\ field'.pc = "shown"
        /\ field'.calls = field.calls
        /\ field'.last = field.last
        /\ field'.timeSec = field.timeSec
        /\ field'.editValue = secondsToTimeString(field.timeSec) ]_vars

C21_Witness ==
  /\ field.pc = "shown"
  /\ field.key = "Escape"
  /\ field.typed = <<"2", "6", ":", "6", "6", ":", "6", "2">>
  /\ field.calls = 0
  /\ field.timeSec = 43200
  /\ field.editValue = secondsToTimeString(43200)

(***************************************************************************)
(* calculateStraighteningPoint: when it reports failure                    *)
(***************************************************************************)

\* the call's origin and destination in the plane (lines 86-89)
CallOrigin == latLonToTransverseMercator(resolver.point1[1], resolver.point1[2])

CallDestination == latLonToTransverseMercator(resolver.point2[1], resolver.point2[2])

\* the call's turn direction (lines 91-93) and radius in plane units
CallDirection ==
  TurnDirectionOf(BearingDeg(resolver.point1[1], resolver.point1[2],
                             resolver.point2[1], resolver.point2[2]),
                  Fin(resolver.inboundBearing))

CallRadius == RoundDiv(resolver.turnRadiusM, PlaneUnitM)

\* the call's turn centre (lines 95-98)
CallCentre ==
  [x |-> CallOrigin.x
           - CallDirection * RoundDiv(CosD(resolver.inboundBearing) * CallRadius, Scale),
   y |-> CallOrigin.y
           + CallDirection * RoundDiv(SinD(resolver.inboundBearing) * CallRadius, Scale)]

\* the squared distance of the destination from the turn centre
CentreToDestinationSq ==
  (CallDestination.x - CallCentre.x) * (CallDestination.x - CallCentre.x)
  + (CallDestination.y - CallCentre.y) * (CallDestination.y - CallCentre.y)

StrictlyInside == CentreToDestinationSq < CallRadius * CallRadius

\* C22 as stated: calculateStraighteningPoint reports failure exactly when
\* the destination lies strictly inside the turn circle, and returns a
\* straightening point whenever the destination is on or outside it.
C22_FailsExactlyInside ==
  resolver.called => (resolver.result.thrown <=> StrictlyInside)

\* C22 amended: calculateStraighteningPoint reports failure exactly when the
\* destination lies strictly inside the turn circle or coincides with the
\* turn centre (which, for a turn radius of 0, is a point of the circle).
C22_FailsInsideOrAtCentre ==
  resolver.called =>
    (resolver.result.thrown <=> (StrictlyInside \/ CentreToDestinationSq = 0))

\* a failure reported for a destination inside the circle, off its centre
C22_Witness ==
  /\ resolver.called
  /\ resolver.result.thrown
  /\ StrictlyInside
  /\ CentreToDestinationSq > 0
  /\ CallRadius = 4

(***************************************************************************)
(* calculateStraighteningPoint: the two intersections (lines 155-202)      *)
(***************************************************************************)

\* (x, y) is on the turn circle and on the radical axis Ax + By = C of
\* lines 103-105: the model's rounding left it an intersection point
ExactIntersection(x, y) ==
  /\ (x - ResolverPlane.cx) * (x - ResolverPlane.cx)
     + (y - ResolverPlane.cy) * (y - ResolverPlane.cy)
     = ResolverPlane.r * ResolverPlane.r
  /\ (ResolverPlane.cx - ResolverPlane.dx) * x
     + (ResolverPlane.cy - ResolverPlane.dy) * y
     = ResolverPlane.cx * ResolverPlane.cx + ResolverPlane.cy * ResolverPlane.cy
       - ResolverPlane.r * ResolverPlane.r
       - (ResolverPlane.dx * ResolverPlane.cx + ResolverPlane.dy * ResolverPlane.cy)

\* the quadratic branch returned and both of its intersection points are
\* the two intersections of circle and line, free of rounding
BothIntersectionsExact ==
  /\ resolver.called
  /\ ~resolver.result.thrown
  /\ resolver.result.branch = "quadratic"
  /\ ExactIntersection(ResolverPlane.x1, ResolverPlane.y1)
  /\ ExactIntersection(ResolverPlane.x2, ResolverPlane.y2)
  /\ (ResolverPlane.r > 0 =>
        <<ResolverPlane.x1, ResolverPlane.y1>> # <<ResolverPlane.x2, ResolverPlane.y2>>)

ExactlyOnePositive ==
  (ResolverPlane.dot1 > 0) # (ResolverPlane.dot2 > 0)

\* lines 195-201: in the best-effort branch the point of the larger dot
\* product is returned (the second on a tie)
BestEffortReturnsLarger ==
  (/\ resolver.called
   /\ ~resolver.result.thrown
   /\ resolver.result.branch = "quadratic"
   /\ ResolverPlane.dot1 <= 0
   /\ ResolverPlane.dot2 <= 0) =>
    /\ ResolverPlane.dot1 > ResolverPlane.dot2 =>
         <<ResolverPlane.sx, ResolverPlane.sy>> = <<ResolverPlane.x1, ResolverPlane.y1>>
    /\ ResolverPlane.dot1 <= ResolverPlane.dot2 =>
         <<ResolverPlane.sx, ResolverPlane.sy>> = <<ResolverPlane.x2, ResolverPlane.y2>>

\* C23 as stated: whenever the destination is strictly outside the turn
\* circle exactly one of the two intersection points has a positive dot
\* product, and the best-effort branch returns the point of the larger one.
C23_OnePositiveDot ==
  /\ (BothIntersectionsExact /\ DestinationOutside) => ExactlyOnePositive
  /\ BestEffortReturnsLarger

\* C23 amended: for a positive turn radius and a destination strictly
\* outside the circle one dot product is positive and the other negative
\* (for a radius of 0 the tangent is the null vector and neither is
\* positive); the best-effort branch returns the point of the larger dot
\* product.
C23_OnePositiveDotForPositiveRadius ==
  /\ (BothIntersectionsExact /\ DestinationOutside /\ ResolverPlane.r > 0) =>
       /\ ExactlyOnePositive
       /\ ResolverPlane.dot1 = -ResolverPlane.dot2
  /\ BestEffortReturnsLarger

\* two tangent points off the axes, one ahead of the destination and one
\* behind it
C23_Witness ==
  /\ BothIntersectionsExact
  /\ DestinationOutside
  /\ ResolverPlane.r = 4
  /\ ResolverPlane.x1 # ResolverPlane.x2
  /\ ResolverPlane.y1 # ResolverPlane.y2
  /\ ResolverPlane.dot1 < 0
  /\ ResolverPlane.dot2 > 0

(***************************************************************************)
(* calculateStraighteningPoint: the turn centre (lines 91-99)              *)
(***************************************************************************)

\* the turn centre a returned call worked with, relative to the origin
CentreOffsetX == ResolverPlane.cx - CallOrigin.x

CentreOffsetY == ResolverPlane.cy - CallOrigin.y

\* the component of the offset along the inbound bearing (x east, y north:
\* the bearing b is the direction (sin b, cos b)), times Scale
OffsetAlongTrack ==
  SinD(resolver.inboundBearing) * CentreOffsetX
  + CosD(resolver.inboundBearing) * CentreOffsetY

\* the component of the offset to the left of the inbound track, times Scale
OffsetLeftOfTrack ==
  SinD(resolver.inboundBearing) * CentreOffsetY
  - CosD(resolver.inboundBearing) * CentreOffsetX

\* the arc's direction of travel at the origin (the rule of lines 160-163)
\* dotted with the inbound direction, and with the direction to its left
TravelAlongTrack ==
  TangentDot(CallOrigin.x, CallOrigin.y, ResolverPlane.cx, ResolverPlane.cy,
             CallOrigin.x + SinD(resolver.inboundBearing),
             CallOrigin.y + CosD(resolver.inboundBearing),
             resolver.result.turnDirection)

TravelLeftOfTrack ==
  TangentDot(CallOrigin.x, CallOrigin.y, ResolverPlane.cx, ResolverPlane.cy,
             CallOrigin.x - CosD(resolver.inboundBearing),
             CallOrigin.y + SinD(resolver.inboundBearing),
             resolver.result.turnDirection)

\* C24: the turn centre is at distance turnRadiusM from the origin (within
\* the rounding of one plane unit) on the perpendicular to the inbound
\* bearing, left of the track for a counter-clockwise turn and right of it
\* for a clockwise one; the origin is on the turn circle and the arc's
\* direction of travel there is the inbound bearing.
C24_TurnCentre ==
  (resolver.called /\ ~resolver.result.thrown) =>
    /\ ResolverPlane.r = CallRadius
    /\ CentreOffsetX * CentreOffsetX + CentreOffsetY * CentreOffsetY
         <= (CallRadius + 1) * (CallRadius + 1)
    /\ CallRadius > 0 =>
         CentreOffsetX * CentreOffsetX + CentreOffsetY * CentreOffsetY
           >= (CallRadius - 1) * (CallRadius - 1)
    /\ CallRadius = 0 => (CentreOffsetX = 0 /\ CentreOffsetY = 0)
    /\ Abs(OffsetAlongTrack) <= Scale
    /\ CallRadius > 0 =>
         /\ resolver.result.turnDirection = CCW => OffsetLeftOfTrack > 0
         /\ resolver.result.turnDirection = CW => OffsetLeftOfTrack < 0
         /\ TravelAlongTrack > 0
         /\ Abs(TravelLeftOfTrack) <= Scale

\* a clockwise turn of 4 plane units off an oblique inbound track
C24_Witness ==
  /\ resolver.called
  /\ ~resolver.result.thrown
  /\ resolver.inboundBearing = 120
  /\ CallRadius = 4
  /\ resolver.result.turnDirection = CW
  /\ OffsetLeftOfTrack < 0
  /\ CentreOffsetX # 0
  /\ CentreOffsetY # 0

(***************************************************************************)
(* calculateLegData: the time en route along a route                       *)
(***************************************************************************)

\* the time and fuel before row k of the route card (lines 91-96)
TimeBefore(k) == IF k = 1 THEN Fin(flightPlan.initTimeSec) ELSE legRows[k - 1].eta

FuelBefore(k) == IF k = 1 THEN Fin(flightPlan.initFob * 36) ELSE legRows[k - 1].efr

\* C25: along any route the time en route of every leg returned by
\* calculateLegData is a finite, non-negative number of seconds, so the ETA
\* never decreases from one leg to the next and the EFR never increases,
\* also on legs whose head wind equals or exceeds the TAS.
C25_EteNonNegative ==
  \A k \in 1..Len(legRows) :
    /\ IsFin(legRows[k].ete)
    /\ legRows[k].ete.v >= 0
    /\ IsFin(legRows[k].eta)
    /\ IsFin(TimeBefore(k)) => legRows[k].eta.v >= TimeBefore(k).v
    /\ IsFin(legRows[k].efr)
    /\ IsFin(FuelBefore(k)) => legRows[k].efr.v <= FuelBefore(k).v

(***************************************************************************)
(* flightPlanUtils.ts: one call of addTurnPoint or moveTurnPoint           *)
(***************************************************************************)

\* the longest plan an editing call is given
MaxEditPoints == 3

\* what an editing call does not touch
notEditVars == <<flightPlan, rejects, pc, i, inboundBearing, results, legRows,
                 resolver, arc, storage, hook, field, map>>

\* a FlightPlanTurnPoint (types/flightPlan.ts 51-61)
TurnPoint(lat, lon, tas, alt, fuelFlow, windSpeed, windDir, name) ==
  [lat |-> lat, lon |-> lon, tas |-> tas, alt |-> alt, fuelFlow |-> fuelFlow,
   windSpeed |-> windSpeed, windDir |-> windDir, name |-> name]

\* the waypoints of the plans edited: one as addTurnPoint makes them, two
\* with parameters the user has set, one of them named
EditPoints ==
  { TurnPoint(0, 39, 400, 3000, 6000, 0, 0, NotSet),
    TurnPoint(1, 39, 350, 5000, 4800, 25, 270, "IP"),
    TurnPoint(1, 40, 420, 200, 7200, 10, 90, NotSet) }

\* a FlightPlan (types/flightPlan.ts 72-80) of the given waypoints
PlanOf(points) ==
  [theatre |-> "caucasus", name |-> "strike", points |-> points, declination |-> 5,
   bankAngle |-> 30, initTimeSec |-> 43200, initFob |-> 12000]

EditPlans ==
  { PlanOf(points) : points \in UNION { [1..n -> EditPoints] : n \in 0..MaxEditPoints } }

\* positions of no waypoint of the plans
NewPositions == { <<2, 41>>, <<0, 38>>, <<2, 38>> }

InitEdit ==
  /\ flightPlan = [points |-> << >>, declination |-> 0, bankAngle |-> 30,
                   initTimeSec |-> 43200, initFob |-> 12000]
  /\ rejects = FALSE
  /\ pc = "idle"
  /\ i = 0
  /\ inboundBearing = Fin(0)
  /\ results = << >>
  /\ legRows = << >>
  /\ resolver = NoCall
  /\ arc = NoArc
  /\ storage = NoItem
  /\ hook = NoHook
  /\ field = NoField
  /\ map = NoMap
  /\ \E plan \in EditPlans : edit = [NoEdit EXCEPT !.flightPlan = plan]

\* a call of addTurnPoint: the caller's plan object stays as it is, the
\* function builds a new array and new objects (lines 21-26)
AddTurnPoint ==
  /\ edit.op = "none"
  /\ \E pos \in NewPositions :
       edit' = [edit EXCEPT !.op = "add", !.lat = pos[1], !.lon = pos[2],
                            !.returned = addTurnPoint(edit.flightPlan, pos[1], pos[2])]
  /\ UNCHANGED notEditVars

\* a call of moveTurnPoint on a waypoint of the plan (Map.tsx 536)
MoveTurnPoint ==
  /\ edit.op = "none"
  /\ \E index \in 0..(Len(edit.flightPlan.points) - 1), pos \in NewPositions :
       edit' = [edit EXCEPT !.op = "move", !.index = index, !.lat = pos[1],
                            !.lon = pos[2],
                            !.returned = moveTurnPoint(edit.flightPlan, index,
                                                       pos[1], pos[2])]
  /\ UNCHANGED notEditVars

NextEdit == AddTurnPoint \/ MoveTurnPoint

SpecEdit == InitEdit /\ [][NextEdit]_vars

\* the fields of a plan other than its waypoints
PlanLevel(plan) ==
  <<plan.theatre, plan.name, plan.declination, plan.bankAngle, plan.initTimeSec,
    plan.initFob>>

\* C26: addTurnPoint appends exactly one waypoint at the end, at the given
\* position, and leaves every waypoint of the plan unchanged in position,
\* order and flight parameters (tas, alt, fuelFlow, windSpeed, windDir,
\* name); the plan-level fields are unchanged.
C26_AddTurnPoint ==
  edit.op = "add" =>
    /\ Len(edit.returned.points) = Len(edit.flightPlan.points) + 1
    /\ edit.returned.points[Len(edit.returned.points)].lat = edit.lat
    /\ edit.returned.points[Len(edit.returned.points)].lon = edit.lon
    /\ \A k \in 1..Len(edit.flightPlan.points) :
         edit.returned.points[k] = edit.flightPlan.points[k]
    /\ PlanLevel(edit.returned) = PlanLevel(edit.flightPlan)

\* C27: moveTurnPoint changes only the latitude and longitude of waypoint
\* i; its tas, alt, fuelFlow, windSpeed, windDir and name, every other
\* waypoint, the waypoint count and order and the plan-level fields are
\* unchanged.
C27_MoveTurnPoint ==
  edit.op = "move" =>
    /\ Len(edit.returned.points) = Len(edit.flightPlan.points)
    /\ edit.returned.points[edit.index + 1] =
         [edit.flightPlan.points[edit.index + 1] EXCEPT !.lat = edit.lat,
                                                        !.lon = edit.lon]
    /\ \A k \in 1..Len(edit.flightPlan.points) :
         k # edit.index + 1 => edit.returned.points[k] = edit.flightPlan.points[k]
    /\ PlanLevel(edit.returned) = PlanLevel(edit.flightPlan)

(***************************************************************************)
(* usePersistedFlightPlan.ts: the debounced save                           *)
(***************************************************************************)

\* React runs the effect of every render of a mounted component and the
\* browser fires every timer that is not cleared
SpecSaving ==
  InitStorage /\ [][NextStorage]_vars /\ WF_vars(RunEffect) /\ WF_vars(TimerFires)

\* the plan was changed by setFlightPlan and the effect of that render is
\* still to run
ChangePending == hook.mounted /\ ~hook.isInitialMount /\ hook.effectPending

\* the plan in state is the one in storage, wrapped with version 1.1
LatestWritten == hook.mounted /\ hook.edits > 0 /\ storage = SavedItem(hook.flightPlan)

\* localStorage.setItem threw on the save of the latest change
LatestRejected ==
  hook.mounted /\ hook.rejected /\ ~hook.effectPending /\ ~hook.timer.pending

\* a step of the timer that writes the item
Written == storage' # storage /\ hook.timer.pending /\ ~hook'.timer.pending

\* nothing is written by the mount or its effect, and no save is pending
\* after them
NothingOnMount ==
  /\ [][hook'.isInitialMount => (storage' = storage \/ storage' = NoItem)]_vars
  /\ [](hook.edits = 0 => ~hook.timer.pending)

MaxClicks == 2

\* what the map does not touch
notMapVars == <<flightPlan, rejects, pc, i, inboundBearing, results, legRows,
                resolver, arc, storage, hook, field, edit>>

\* new Point([lon, lat])
PointAtPosition(lat, lon) == [set |-> TRUE, lat |-> lat, lon |-> lon]

\* useDrawing.ts 49-51: the last waypoint of the existing plan, or null
InitialPoint(existingFlightPlan) ==
  IF Len(existingFlightPlan.points) > 0
  THEN PointAtPosition(existingFlightPlan.points[Len(existingFlightPlan.points)].lat,
                       existingFlightPlan.points[Len(existingFlightPlan.points)].lon)
  ELSE NoPoint

\* Map.tsx 316-318: the point is within 0.0001 degrees of a waypoint
PointExists(points, latestPoint) ==
  \E k \in 1..Len(points) :
    points[k].lat = latestPoint.lat /\ points[k].lon = latestPoint.lon

InitMap ==
  /\ flightPlan = [points |-> << >>, declination |-> 0, bankAngle |-> 30,
                   initTimeSec |-> 43200, initFob |-> 12000]
  /\ rejects = FALSE
  /\ pc = "idle"
  /\ i = 0
  /\ inboundBearing = Fin(0)
  /\ results = << >>
  /\ legRows = << >>
  /\ resolver = NoCall
  /\ arc = NoArc
  /\ storage = NoItem
  /\ hook = NoHook
  /\ field = NoField
  /\ edit = NoEdit
  /\ \E plan \in EditPlans :
       map = [NoMap EXCEPT !.shown = TRUE, !.flightPlan = plan,
                           !.initial = plan.points]

\* useDrawing.ts 35-63: startDrawing(map, flightPlan) from the button of the
\* sidebar, with the plan of the current render
StartDrawing ==
  /\ map.shown
  /\ map.isDrawing = "NO_DRAWING"
  /\ map.drawingUpdate = NoUpdate
  /\ ~map.effectPending
  /\ map' = [map EXCEPT !.drawingUpdate =
                          [kind |-> "start", point |-> InitialPoint(map.flightPlan)]]
  /\ UNCHANGED notMapVars

\* Map.tsx 222-232 and useDrawing.ts 131-142: a click on the map at a
\* position that is in no plan yet; the handler tests the isDrawing of the
\* render that registered it
ClickMap ==
  /\ map.shown
  /\ map.handlerDrawing
  /\ map.drawingUpdate = NoUpdate
  /\ ~map.effectPending
  /\ Len(map.clicked) < MaxClicks
  /\ \E pos \in NewPositions :
       /\ \A k \in 1..Len(map.clicked) : map.clicked[k] # pos
       /\ map' = [map EXCEPT
            !.drawingUpdate = [kind |-> "add",
                               point |-> PointAtPosition(pos[1], pos[2])],
            !.clicked = Append(@, pos)]
  /\ UNCHANGED notMapVars

\* the render of a setDrawingState call: useDrawing.ts 53-61 (the state of
\* startDrawing) and 137-141 (the updater of addPoint)
RenderDrawing ==
  /\ map.drawingUpdate # NoUpdate
  /\ ~map.effectPending
  /\ map' = [map EXCEPT
       !.isDrawing = IF map.drawingUpdate.kind = "start" THEN "NEW_POINT" ELSE @,
       !.currentPoint = map.drawingUpdate.point,
       !.drawingUpdate = NoUpdate,
       !.effectPending = TRUE]
  /\ UNCHANGED notMapVars

\* the plan an effect hands to onFlightPlanUpdate (Map.tsx 321, 331)
PlanUpdates(m) ==
  IF /\ m.isDrawing = "NEW_POINT"
     /\ m.currentPoint.set
     /\ ~PointExists(m.flightPlan.points, m.currentPoint)
  THEN Append(m.updates,
              addTurnPoint(m.flightPlan, m.currentPoint.lat, m.currentPoint.lon))
  ELSE m.updates

\* the effects of a render of drawingState: Map.tsx 213-237 registers the
\* click handler, Map.tsx 305-334 adds the current point to the plan of that
\* render (App.tsx 22-25: setFlightPlan(updatedPlan))
RunMapEffects ==
  /\ map.effectPending
  /\ map' = [map EXCEPT !.effectPending = FALSE,
                        !.handlerDrawing = (map.isDrawing = "NEW_POINT"),
                        !.updates = PlanUpdates(map)]
  /\ UNCHANGED notMapVars

\* the render of the setFlightPlan calls queued: the last value is the state
RenderPlan ==
  /\ map.updates # << >>
  /\ ~map.effectPending
  /\ map.drawingUpdate = NoUpdate
  /\ map' = [map EXCEPT !.flightPlan = map.updates[Len(map.updates)],
                        !.updates = << >>]
  /\ UNCHANGED notMapVars

NextMap == StartDrawing \/ ClickMap \/ RenderDrawing \/ RunMapEffects \/ RenderPlan

SpecMap == InitMap /\ [][NextMap]_vars

\* every update is rendered and every effect has run
MapSettled ==
  /\ map.shown
  /\ map.drawingUpdate = NoUpdate
  /\ ~map.effectPending
  /\ map.updates = << >>

\* the positions of the waypoints of a plan, in order
PositionsOf(points) == [k \in 1..Len(points) |-> <<points[k].lat, points[k].lon>>]

\* C29: in drawing mode every click at a position not in the plan adds
\* exactly one waypoint, also when two clicks arrive before the plan state
\* has been updated, and entering drawing mode adds none: once everything is
\* rendered the plan's waypoints are those it had followed by one per click.
C29_EveryClickAdds ==
  MapSettled => PositionsOf(map.flightPlan.points) = PositionsOf(map.initial) \o map.clicked

====
